---- MODULE Spec2Model ----
(***************************************************************************)
(* Backward pass of the tile-based Gaussian rasterizer                     *)
(* (cuda_rasterizer/backward.cu): BACKWARD::render launches                *)
(* PerGaussianRenderCUDA, one warp per bucket; BACKWARD::preprocess        *)
(* launches computeCov2DCUDA and then preprocessCUDA, one thread per       *)
(* primitive.                                                              *)
(*                                                                         *)
(* float values are rationals <<numerator, denominator>> of finite         *)
(* precision: a result beyond Range is rounded.  The two transcendental    *)
(* functions are replaced by rational stand-ins: ExpR for exp and SqrtR    *)
(* for sqrt.  The sizes fixed at build time (warp width, tile width and    *)
(* height) are scaled down.                                                *)
(***************************************************************************)
EXTENDS Integers, Sequences, FiniteSets, TLC

\* ------------------------------------------------------------------ sizes
\* lanes of a warp = primitives of a bucket (32 in the source)
WARP == 2
\* tile width and height in pixels (BLOCK_X, BLOCK_Y of config.h)
BLOCK_X == 2
BLOCK_Y == 2
\* colour channels (NUM_CHANNELS_3DGS; the glm::vec3 views of lines 35-53 fix it)
NUM_CHANNELS == 3

BLOCK_SIZE == BLOCK_X * BLOCK_Y
\* image: one full tile and one tile cut by the right border
W == BLOCK_X + 1
H == BLOCK_Y
Lanes == 0 .. (WARP - 1)
Chans == 0 .. (NUM_CHANNELS - 1)

\* ------------------------------------------------------- rational numbers
AbsI(a) == IF a < 0 THEN -a ELSE a

RECURSIVE GCD(_, _)
GCD(a, b) == IF b = 0 THEN a ELSE GCD(b, a % b)

\* the fraction n/d (d # 0) in lowest terms with a positive denominator
Q(n, d) ==
    LET g == GCD(AbsI(n), AbsI(d))
        s == IF d < 0 THEN -1 ELSE 1
    IN  <<s * (n \div g), s * (d \div g)>>

I(n) == <<n, 1>>
Zero == <<0, 1>>
One == <<1, 1>>

\* Finite precision.  A result is exact when its numerator and denominator
\* can be computed within 2^30.  Otherwise the operand with the larger
\* denominator is rounded to about half that denominator, again and again
\* until the result can be computed; a product of a large and a small
\* numerator is divided before it is multiplied.  An integer beyond 2^30
\* saturates.
Range == 1073741823
Fits(a, b) == b = 0 \/ AbsI(a) <= Range \div AbsI(b)
\* an integer within the range
Clamp(n) == <<IF n > Range THEN Range ELSE IF n < -Range THEN -Range ELSE n, 1>>
\* n/d with the common divisor g taken out
Reduced(n, d, g) == IF g # d \/ d = 0 THEN <<n \div g, d \div g>> ELSE Clamp(n \div g)
\* the fraction n/d (d >= 0) in lowest terms
Out(n, d) == Reduced(n, d, GCD(AbsI(n), d))
\* x, not an integer, to the nearest fraction of half the denominator
Coarse(x) ==
    Out(IF x[2] >= 32768 THEN x[1] \div 2
        ELSE (x[1] \div x[2]) * (x[2] \div 2)
                 + ((x[1] % x[2]) * (x[2] \div 2) + (x[2] \div 2)) \div x[2],
        x[2] \div 2)

RECURSIVE Add(_, _)
\* x + y over the common denominator b * y[2] = a * x[2]
AddOver(x, y, a, b) ==
    IF Fits(x[1], a) /\ Fits(y[1], b) /\ Fits(b, y[2])
    THEN Out(x[1] * a + y[1] * b, b * y[2])
    ELSE Add(Coarse(x), y)
Add(x, y) ==
    IF x[1] = 0 THEN y
    ELSE IF y[1] = 0 THEN x
    ELSE IF x[2] < y[2] THEN Add(y, x)
    ELSE AddOver(x, y, y[2] \div GCD(x[2], y[2]), x[2] \div GCD(x[2], y[2]))
Neg(x) == <<-x[1], x[2]>>
Sub(x, y) == Add(x, Neg(y))
RECURSIVE Mul(_, _)
\* x * y = (a * b) / cd, the common divisors taken out crosswise; cd is 0
\* when the denominator is out of range
MulOver(x, y, a, b, cd) ==
    IF cd # 0 /\ Fits(a, b) THEN Out(a * b, cd)
    ELSE IF cd = 1 THEN <<(IF (a < 0) = (b < 0) THEN Range ELSE -Range), 1>>
    ELSE IF cd # 0 /\ cd <= AbsI(a) \div 1024 THEN Mul(<<a \div cd, 1>>, <<b, 1>>)
    ELSE IF cd # 0 /\ cd <= AbsI(b) \div 1024 THEN Mul(<<a, 1>>, <<b \div cd, 1>>)
    ELSE Mul(Coarse(x), y)
MulCross(x, y, g1, g2) ==
    MulOver(x, y, x[1] \div g1, y[1] \div g2,
            IF Fits(x[2] \div g2, y[2] \div g1) THEN (x[2] \div g2) * (y[2] \div g1) ELSE 0)
Mul(x, y) ==
    IF x[1] = 0 \/ y[1] = 0 THEN Zero
    ELSE IF x[2] < y[2] THEN Mul(y, x)
    ELSE MulCross(x, y, GCD(AbsI(x[1]), y[2]), GCD(AbsI(y[1]), x[2]))
Inv(x) == IF x[1] < 0 THEN <<-x[2], -x[1]>> ELSE <<x[2], x[1]>>
Div(x, y) == Mul(x, Inv(y))
Lt(x, y) == Add(x, Neg(y))[1] < 0
Le(x, y) == ~Lt(y, x)
Gt(x, y) == Lt(y, x)
Ge(x, y) == ~Lt(x, y)
MinR(x, y) == IF Lt(y, x) THEN y ELSE x
MaxR(x, y) == IF Lt(x, y) THEN y ELSE x
AbsR(x) == <<AbsI(x[1]), x[2]>>
Add3(x, y, z) == Add(Add(x, y), z)
Add4(x, y, z, u) == Add(Add(Add(x, y), z), u)
Mul3(x, y, z) == Mul(Mul(x, y), z)
Mul4(x, y, z, u) == Mul(Mul(Mul(x, y), z), u)

\* sum of f[k] over the integers lo..hi, in increasing order
RECURSIVE SumR(_, _, _)
SumR(f, lo, hi) == IF hi < lo THEN Zero ELSE Add(SumR(f, lo, hi - 1), f[hi])

\* stand-in for exp on the non-positive reals: positive, increasing, 1 at 0
ExpR(p) == Inv(Sub(One, p))

\* stand-in for sqrt: exact on quotients of squares, otherwise rounded down to
\* a multiple of 1/100
RECURSIVE ISqrtFrom(_, _, _)
ISqrtFrom(n, lo, hi) ==
    IF lo >= hi THEN lo
    ELSE LET mid == (lo + hi + 1) \div 2
         IN  IF mid * mid <= n THEN ISqrtFrom(n, mid, hi) ELSE ISqrtFrom(n, lo, mid - 1)
ISqrt(n) == ISqrtFrom(n, 0, IF n < 46340 THEN n ELSE 46340)
SqrtR(x) ==
    LET a == ISqrt(x[1])
        b == ISqrt(x[2])
        s == Mul(x, I(10000))
    IN  IF a * a = x[1] /\ b * b = x[2] THEN <<a, b>>
        ELSE Q(ISqrt(s[1] \div s[2]), 100)

\* ------------------------------------------------------------ the scene
\* primitives 0..WARP are rasterized, primitive WARP+1 is culled
P == WARP + 2
Gaussians == 0 .. (P - 1)
LastG == WARP

horizontal_blocks == (W + BLOCK_X - 1) \div BLOCK_X
vertical_blocks == (H + BLOCK_Y - 1) \div BLOCK_Y
Tiles == 0 .. (horizontal_blocks * vertical_blocks - 1)
PixIds == 0 .. (W * H - 1)
TileIdx == 0 .. (BLOCK_SIZE - 1)

\* tile 0 holds primitives 0..WARP in depth order, tile 1 holds 0 and WARP
ranges(tile_id) ==
    IF tile_id = 0 THEN [x |-> 0, y |-> WARP + 1]
    ELSE IF tile_id = 1 THEN [x |-> WARP + 1, y |-> WARP + 3]
    ELSE [x |-> WARP + 3, y |-> WARP + 3]
point_list(k) == IF k <= WARP THEN k ELSE IF k = WARP + 1 THEN 0 ELSE LastG

BucketsOf(tile_id) == (ranges(tile_id).y - ranges(tile_id).x + WARP - 1) \div WARP
RECURSIVE per_tile_bucket_offset(_)
per_tile_bucket_offset(tile_id) ==
    IF tile_id < 0 THEN 0 ELSE per_tile_bucket_offset(tile_id - 1) + BucketsOf(tile_id)
B == per_tile_bucket_offset(horizontal_blocks * vertical_blocks - 1)
Buckets == 0 .. (B - 1)
bucket_to_tile(b) == CHOOSE t \in Tiles :
    per_tile_bucket_offset(t - 1) <= b /\ b < per_tile_bucket_offset(t)

points_xy_image(g) ==
    IF g = LastG THEN [x |-> I(BLOCK_X), y |-> I(0)]
    ELSE [x |-> I(g % BLOCK_X), y |-> I((g \div BLOCK_X) % BLOCK_Y)]
colors(k) == I((k \div NUM_CHANNELS) + (k % NUM_CHANNELS) + 1)
depths(g) == I(2 ^ g)
bg_color(ch) == I(ch + 1)
dL_dpixels(k) == I((((k \div (H * W)) + (k % (H * W))) % 3) - 1)
\* the last pixel carries a negative one, so that the tiles pull apart
dL_invdepths(pix_id) == IF pix_id = W * H - 1 THEN I(-3) ELSE I((pix_id % 2) + 1)

\* conic (x, y, z) and opacity (w) of each primitive.  Primitive 0 is flat
\* along x.  The opacities are chosen at launch: either the first primitive is
\* so faint that it is seen in its own row only and the last one is too faint
\* to be seen anywhere, or the first and the middle ones are opaque, so that
\* a pixel saturates before the tile's list ends.
Conic(g) ==
    IF g = LastG THEN <<I(2), I(0), I(254)>>
    ELSE IF g = 0 THEN <<I(0), I(0), I(2)>>
    ELSE IF g = 1 THEN <<I(2), I(3), I(2)>>
    ELSE <<I(2), I(0), I(2)>>
Opacities ==
    {[first |-> Q(1, 128), mid |-> Q(1, 2), last |-> Q(1, 256)],
     [first |-> One, mid |-> One, last |-> Q(1, 2)]}
SceneOf(op) ==
    [g \in Gaussians |->
        [x |-> Conic(g)[1], y |-> Conic(g)[2], z |-> Conic(g)[3],
         w |-> IF g = 0 THEN op.first ELSE IF g = LastG THEN op.last ELSE op.mid]]

\* ------------------------------------------- the forward pass (external)
\* The forward rasterizer is not part of backward.cu; its outputs are the
\* buffers the backward kernels read.  Per pixel it walks the tile's
\* primitives front to back.
TileOfPixel(px, py) == (py \div BLOCK_Y) * horizontal_blocks + (px \div BLOCK_X)
TileSplats(tile_id) == ranges(tile_id).y - ranges(tile_id).x
TileGaussian(tile_id, k) == point_list(ranges(tile_id).x + k)

FwdPowerAt(con, dx, dy) ==
    Sub(Mul(Q(-1, 2), Add(Mul3(con.x, dx, dx), Mul3(con.z, dy, dy))), Mul3(con.y, dx, dy))
FwdPower(cop, g, px, py) ==
    FwdPowerAt(cop[g], Sub(points_xy_image(g).x, I(px)), Sub(points_xy_image(g).y, I(py)))
FwdAlphaAt(opacity, power) == MinR(Q(99, 100), Mul(opacity, ExpR(power)))
FwdAlpha(cop, g, px, py) == FwdAlphaAt(cop[g].w, FwdPower(cop, g, px, py))
FwdVisibleAt(power, alpha) == ~Gt(power, Zero) /\ ~Lt(alpha, Q(1, 255))
FwdVisible(cop, g, px, py) ==
    FwdVisibleAt(FwdPower(cop, g, px, py), FwdAlpha(cop, g, px, py))

FwdStart == [T |-> One, C |-> [ch \in Chans |-> Zero], D |-> Zero, last |-> 0, done |-> FALSE]
FwdBlend(g, k, st, alpha, test_T) ==
    IF Lt(test_T, Q(1, 10000)) THEN [st EXCEPT !.done = TRUE]
    ELSE [T |-> test_T,
          C |-> [ch \in Chans |->
                   Add(st.C[ch], Mul3(colors(g * NUM_CHANNELS + ch), alpha, st.T))],
          D |-> Add(st.D, Mul3(Inv(depths(g)), alpha, st.T)),
          last |-> k,
          done |-> FALSE]
FwdStepAt(g, k, st, power, alpha) ==
    IF st.done \/ ~FwdVisibleAt(power, alpha) THEN st
    ELSE FwdBlend(g, k, st, alpha, Mul(st.T, Sub(One, alpha)))
FwdStepBy(cop, g, k, st, power) == FwdStepAt(g, k, st, power, FwdAlphaAt(cop[g].w, power))
FwdStep(cop, g, px, py, k, st) == FwdStepBy(cop, g, k, st, FwdPower(cop, g, px, py))
\* running state of pixel (px, py) after the first k primitives of its tile
RECURSIVE FwdAt(_, _, _, _, _)
FwdAt(cop, tile_id, px, py, k) ==
    IF k = 0 THEN FwdStart
    ELSE FwdStep(cop, TileGaussian(tile_id, k - 1), px, py, k,
                 FwdAt(cop, tile_id, px, py, k - 1))
FwdFinal(cop, px, py) ==
    FwdAt(cop, TileOfPixel(px, py), px, py, TileSplats(TileOfPixel(px, py)))

MaxOf(S) == CHOOSE m \in S : \A n \in S : n <= m
\* the checkpoint of a bucket for a pixel; nothing is stored for a pixel
\* outside the image or one that has stopped
FwdCheckpoint(junk, inside, st) ==
    IF inside /\ ~st.done THEN st
    ELSE [T |-> junk, C |-> [ch \in Chans |-> junk], D |-> junk, last |-> 0, done |-> TRUE]
FwdSampleAt(cop, junk, b, tile_id, px, py) ==
    FwdCheckpoint(junk, px < W /\ py < H,
                  FwdAt(cop, tile_id, px, py, (b - per_tile_bucket_offset(tile_id - 1)) * WARP))
\* the checkpoint of bucket b for the pixel at index idx of its tile
FwdSample(cop, junk, b, idx) ==
    FwdSampleAt(cop, junk, b, bucket_to_tile(b),
                (bucket_to_tile(b) % horizontal_blocks) * BLOCK_X + (idx % BLOCK_X),
                (bucket_to_tile(b) \div horizontal_blocks) * BLOCK_Y + (idx \div BLOCK_X))
\* the buffers, from the checkpoints and the final state of every pixel
FwdBuffers(sample, final) ==
    [sampled_T |-> [k \in 0 .. (B * BLOCK_SIZE - 1) |-> sample[k].T],
     sampled_ar |-> [k \in 0 .. (B * BLOCK_SIZE * NUM_CHANNELS - 1) |->
                        sample[(k \div (BLOCK_SIZE * NUM_CHANNELS)) * BLOCK_SIZE
                               + (k % BLOCK_SIZE)].C[(k \div BLOCK_SIZE) % NUM_CHANNELS]],
     sampled_ard |-> [k \in 0 .. (B * BLOCK_SIZE - 1) |-> sample[k].D],
     final_Ts |-> [k \in PixIds |-> final[k].T],
     n_contrib |-> [k \in PixIds |-> final[k].last],
     max_contrib |-> [t \in Tiles |->
                        MaxOf({0} \cup {final[k].last :
                                   k \in {q \in PixIds : TileOfPixel(q % W, q \div W) = t}})],
     pixel_colors |-> [k \in 0 .. (NUM_CHANNELS * H * W - 1) |->
                        final[k % (H * W)].C[k \div (H * W)]],
     pixel_invDepths |-> [k \in PixIds |-> final[k].D]]
ForwardBuffers(cop, junk) ==
    FwdBuffers([k \in 0 .. (B * BLOCK_SIZE - 1) |->
                   FwdSample(cop, junk, k \div BLOCK_SIZE, k % BLOCK_SIZE)],
               [k \in PixIds |-> FwdFinal(cop, k % W, k \div W)])

\* ------------------------------------------------------ vectors, matrices
V3(x, y, z) == [x |-> x, y |-> y, z |-> z]
V3Zero == V3(Zero, Zero, Zero)
VAdd(u, v) == V3(Add(u.x, v.x), Add(u.y, v.y), Add(u.z, v.z))
VSub(u, v) == V3(Sub(u.x, v.x), Sub(u.y, v.y), Sub(u.z, v.z))
VScale(s, v) == V3(Mul(s, v.x), Mul(s, v.y), Mul(s, v.z))
VMul(u, v) == V3(Mul(u.x, v.x), Mul(u.y, v.y), Mul(u.z, v.z))
VDot(u, v) == Add3(Mul(u.x, v.x), Mul(u.y, v.y), Mul(u.z, v.z))
RECURSIVE VSum(_)
VSum(vs) == IF vs = <<>> THEN V3Zero ELSE VAdd(VSum(SubSeq(vs, 1, Len(vs) - 1)), vs[Len(vs)])

\* glm::mat3: nine entries in column order, m[column][row]
M3(a, b, c, d, e, f, g, h, i) ==
    (0 :> (0 :> a @@ 1 :> b @@ 2 :> c)) @@ (1 :> (0 :> d @@ 1 :> e @@ 2 :> f))
        @@ (2 :> (0 :> g @@ 1 :> h @@ 2 :> i))
MTranspose(m) ==
    M3(m[0][0], m[1][0], m[2][0], m[0][1], m[1][1], m[2][1], m[0][2], m[1][2], m[2][2])
\* entry (col, row) of the product a * b
MEntry(a, b, col, row) ==
    Add3(Mul(a[0][row], b[col][0]), Mul(a[1][row], b[col][1]), Mul(a[2][row], b[col][2]))
MMul(a, b) ==
    M3(MEntry(a, b, 0, 0), MEntry(a, b, 0, 1), MEntry(a, b, 0, 2),
       MEntry(a, b, 1, 0), MEntry(a, b, 1, 1), MEntry(a, b, 1, 2),
       MEntry(a, b, 2, 0), MEntry(a, b, 2, 1), MEntry(a, b, 2, 2))
MScale(s, m) ==
    M3(Mul(s, m[0][0]), Mul(s, m[0][1]), Mul(s, m[0][2]),
       Mul(s, m[1][0]), Mul(s, m[1][1]), Mul(s, m[1][2]),
       Mul(s, m[2][0]), Mul(s, m[2][1]), Mul(s, m[2][2]))
\* a column of a glm::mat3 as a vector
MCol(m, col) == V3(m[col][0], m[col][1], m[col][2])

\* float32 addition of the guard 0.0000001f: below half an ulp of any
\* |x| >= 2, and exact when x is zero
Epsilon == Q(1, 10000000)
AddEps(x) ==
    IF Ge(AbsR(x), I(2)) THEN x ELSE IF x = Zero THEN Epsilon ELSE Add(x, Epsilon)

\* ------------------------------------------------------------- state
VARIABLES
    phase,          \* the host: which kernel launch is in flight
    junk,           \* the value an uninitialized register or checkpoint holds
    dirty,          \* whether the caller zero-filled the gradient buffers
    conic_opacity,  \* per primitive: conic (x, y, z) and opacity (w)
    fwd,            \* the buffers written by the forward pass
    warp,           \* PerGaussianRenderCUDA: one warp per bucket
    dL_dmean2D,     \* float4 per primitive, flat
    dL_dconic2D,    \* float4 per primitive, flat
    dL_dopacity,
    dL_dcolors,
    dL_dinvdepths,
    pin,            \* the arguments of the BACKWARD::preprocess call
    tpc,            \* per thread of the preprocess grid: the kernel it has yet to run
    cov,            \* computeCov2DCUDA: the locals each thread ended with
    dL_dmeans,      \* float3 per primitive, flat
    dL_dcov3D,      \* six floats per primitive, flat
    dL_ddc,         \* float3 per primitive, flat
    dL_dsh,         \* max_coeffs float3 per primitive, flat
    dL_dscale,      \* float3 per primitive, flat
    dL_drot         \* float4 per primitive, flat

renderIn == <<junk, dirty, conic_opacity, fwd>>
renderOut == <<dL_dmean2D, dL_dconic2D, dL_dopacity, dL_dcolors, dL_dinvdepths>>
preprocessState == <<pin, tpc, cov>>
preprocessOut == <<dL_dmeans, dL_dcov3D, dL_ddc, dL_dsh, dL_dscale, dL_drot>>

\* --------------------------------------------- PerGaussianRenderCUDA
\* C integer division and remainder (truncating)
CDiv(a, b) == IF a >= 0 THEN a \div b ELSE -((-a) \div b)
CRem(a, b) == a - b * CDiv(a, b)
\* an unsigned 32-bit sum: a negative one wraps to a value beyond any image
UWrap(a) == IF a < 0 THEN a + 2147483647 ELSE a

pix_min(tile_id) ==
    [x |-> (tile_id % horizontal_blocks) * BLOCK_X,
     y |-> (tile_id \div horizontal_blocks) * BLOCK_Y]
pix_of(tile_id, idx) ==
    [x |-> UWrap(pix_min(tile_id).x + CRem(idx, BLOCK_X)),
     y |-> UWrap(pix_min(tile_id).y + CDiv(idx, BLOCK_X))]
valid_pixel(tile_id, idx) == pix_of(tile_id, idx).x < W /\ pix_of(tile_id, idx).y < H
pix_id_of(tile_id, idx) == W * pix_of(tile_id, idx).y + pix_of(tile_id, idx).x

bbm(tile_id) == IF tile_id = 0 THEN 0 ELSE per_tile_bucket_offset(tile_id - 1)
bucket_idx_in_tile(b) == b - bbm(bucket_to_tile(b))
num_splats_in_tile(b) == ranges(bucket_to_tile(b)).y - ranges(bucket_to_tile(b)).x

ZeroC == [ch \in Chans |-> Zero]
JunkC == [ch \in Chans |-> junk]

\* the registers of one lane before the kernel has set them
BlankLane ==
    [valid_splat |-> FALSE, splat_idx_in_tile |-> 0, gaussian_idx |-> 0,
     xy |-> [x |-> Zero, y |-> Zero],
     con_o |-> [x |-> Zero, y |-> Zero, z |-> Zero, w |-> Zero],
     c |-> ZeroC, invd |-> Zero,
     Register_dL_dmean2D_x |-> Zero, Register_dL_dmean2D_y |-> Zero,
     Register_dL_dconic2D_x |-> Zero, Register_dL_dconic2D_y |-> Zero,
     Register_dL_dconic2D_w |-> Zero, Register_dL_dopacity |-> Zero,
     Register_dL_dcolors |-> ZeroC, Register_dL_dinvdepths |-> Zero,
     T |-> junk, T_final |-> junk, last_contributor |-> junk,
     ar |-> JunkC, ard |-> junk, dL_dpixel |-> JunkC, dL_invdepth |-> junk,
     work |-> FALSE, hit |-> FALSE, idx |-> 0, alpha |-> Zero, dL_dalpha |-> Zero, bg_dot_dpixel |-> Zero]

\* lines 485-500, 507-530: indices and properties of the lane's primitive
valid_splat_of(b, rank) == bucket_idx_in_tile(b) * WARP + rank < num_splats_in_tile(b)
LoadLane(b, rank) ==
    LET in_tile == bucket_idx_in_tile(b) * WARP + rank
        vs == valid_splat_of(b, rank)
        g == IF vs THEN point_list(ranges(bucket_to_tile(b)).x + in_tile) ELSE 0
    IN  [BlankLane EXCEPT
            !.valid_splat = vs,
            !.splat_idx_in_tile = in_tile,
            !.gaussian_idx = g,
            !.xy = IF vs THEN points_xy_image(g) ELSE @,
            !.con_o = IF vs THEN conic_opacity[g] ELSE @,
            !.c = IF vs THEN [ch \in Chans |-> colors(g * NUM_CHANNELS + ch)] ELSE @,
            !.invd = IF vs THEN Div(One, depths(g)) ELSE @]

\* a faulty test that lets the bucket at the boundary run
BucketUselessStrict(b) == bucket_idx_in_tile(b) * WARP > fwd.max_contrib[bucket_to_tile(b)]
\* line 503: the whole bucket lies behind every pixel's last contributor
BucketUseless(b) == bucket_idx_in_tile(b) * WARP >= fwd.max_contrib[bucket_to_tile(b)]

Setup(b) ==
    /\ b < B
    /\ warp[b].pc = "start"
    /\ IF BucketUseless(b)
       THEN warp' = [warp EXCEPT ![b].pc = "done"]
       ELSE warp' = [warp EXCEPT ![b] =
                        [pc |-> "loop", i |-> 0, k |-> 0, adds |-> [rank \in Lanes |-> 0],
                         lane |-> [rank \in Lanes |-> LoadLane(b, rank)]]]
    /\ UNCHANGED <<phase, renderIn, renderOut, preprocessState, preprocessOut>>

\* a faulty shuffle: every lane keeps its own values
shfl_none(lanes, rank) == lanes[rank]
\* lines 554-562: shfl_up by one; lane 0 keeps its own values
shfl_up(lanes, rank) ==
    LET src == IF rank >= 1 THEN lanes[rank - 1] ELSE lanes[rank]
    IN  [lanes[rank] EXCEPT
            !.T = src.T, !.last_contributor = src.last_contributor,
            !.T_final = src.T_final, !.ar = src.ar, !.dL_dpixel = src.dL_dpixel,
            !.ard = src.ard, !.dL_invdepth = src.dL_invdepth]

\* a faulty lane 0: the checkpoint alone, the pixel's final colour and depth
\* not subtracted
LoadCheckpointOnly(b, l, idx) ==
    LET tile_id == bucket_to_tile(b)
        pix_id == pix_id_of(tile_id, idx)
    IN  [l EXCEPT
            !.T = fwd.sampled_T[b * BLOCK_SIZE + idx],
            !.ar = [ch \in Chans |->
                      fwd.sampled_ar[b * BLOCK_SIZE * NUM_CHANNELS + ch * BLOCK_SIZE + idx]],
            !.ard = fwd.sampled_ard[b * BLOCK_SIZE + idx],
            !.T_final = fwd.final_Ts[pix_id],
            !.last_contributor = I(fwd.n_contrib[pix_id]),
            !.dL_dpixel = [ch \in Chans |-> dL_dpixels(ch * H * W + pix_id)],
            !.dL_invdepth = dL_invdepths(pix_id)]
\* lines 573-584: lane 0 reads the checkpoint and the pixel's final values
LoadCheckpoint(b, l, idx) ==
    LET tile_id == bucket_to_tile(b)
        pix_id == pix_id_of(tile_id, idx)
    IN  [l EXCEPT
            !.T = fwd.sampled_T[b * BLOCK_SIZE + idx],
            !.ar = [ch \in Chans |->
                      Add(Neg(fwd.pixel_colors[ch * H * W + pix_id]),
                          fwd.sampled_ar[b * BLOCK_SIZE * NUM_CHANNELS + ch * BLOCK_SIZE + idx])],
            !.ard = Add(Neg(fwd.pixel_invDepths[pix_id]), fwd.sampled_ard[b * BLOCK_SIZE + idx]),
            !.T_final = fwd.final_Ts[pix_id],
            !.last_contributor = I(fwd.n_contrib[pix_id]),
            !.dL_dpixel = [ch \in Chans |-> dL_dpixels(ch * H * W + pix_id)],
            !.dL_invdepth = dL_invdepths(pix_id)]
LoadState(b, l, rank, idx) ==
    IF l.valid_splat /\ valid_pixel(bucket_to_tile(b), idx) /\ rank = 0 /\ idx < BLOCK_SIZE
    THEN LoadCheckpoint(b, l, idx)
    ELSE l

\* a lane that adds nothing at this step
Idle(l, idx, work) ==
    [l EXCEPT !.idx = idx, !.work = work, !.hit = FALSE, !.alpha = Zero,
              !.dL_dalpha = Zero, !.bg_dot_dpixel = Zero]

\* a faulty test that never stops a lane
BeyondLastNever(l) == FALSE
\* line 590
BeyondLast(l) == Ge(I(l.splat_idx_in_tile), l.last_contributor)
\* a faulty boundary term: none
BoundaryTermNone(l, alpha, bg_dot_dpixel) == Zero
\* line 619
BoundaryTerm(l, alpha, bg_dot_dpixel) ==
    Mul(Div(Neg(l.T_final), Sub(One, alpha)), bg_dot_dpixel)
\* lines 608 and 616
BehindTerm(v, T, alpha, acc, dL) ==
    Mul(Sub(Mul(v, T), Mul(Div(One, Sub(One, alpha)), Neg(acc))), dL)

\* lines 623-639: the registers after the sample
Accumulate(l, idx, d, G, alpha, weight, ar, ard, bg_dot_dpixel, dL_dalpha, dL_dG, gdx, gdy) ==
    [l EXCEPT
        !.idx = idx, !.work = TRUE, !.hit = TRUE, !.alpha = alpha,
        !.ar = ar,
        !.Register_dL_dcolors = [ch \in Chans |-> Add(@[ch], Mul(weight, l.dL_dpixel[ch]))],
        !.ard = ard,
        !.Register_dL_dinvdepths = Add(@, Mul(weight, l.dL_invdepth)),
        !.T = Mul(@, Sub(One, alpha)),
        !.bg_dot_dpixel = bg_dot_dpixel, !.dL_dalpha = dL_dalpha,
        !.Register_dL_dmean2D_x =
            Add(@, Mul3(dL_dG, Sub(Mul(Neg(gdx), l.con_o.x), Mul(gdy, l.con_o.y)),
                        Mul(Q(1, 2), I(W)))),
        !.Register_dL_dmean2D_y =
            Add(@, Mul3(dL_dG, Sub(Mul(Neg(gdy), l.con_o.z), Mul(gdx, l.con_o.y)),
                        Mul(Q(1, 2), I(H)))),
        !.Register_dL_dconic2D_x = Add(@, Mul4(Q(-1, 2), gdx, d.x, dL_dG)),
        !.Register_dL_dconic2D_y = Add(@, Mul4(Q(-1, 2), gdx, d.y, dL_dG)),
        !.Register_dL_dconic2D_w = Add(@, Mul4(Q(-1, 2), gdy, d.y, dL_dG)),
        !.Register_dL_dopacity = Add(@, Mul(G, dL_dalpha))]
\* lines 624-626
Reusable(l, idx, d, G, alpha, weight, ar, ard, bg_dot_dpixel, dL_dalpha) ==
    Accumulate(l, idx, d, G, alpha, weight, ar, ard, bg_dot_dpixel, dL_dalpha,
               Mul(l.con_o.w, dL_dalpha), Mul(G, d.x), Mul(G, d.y))
\* lines 608, 616 and 619: dL_dalpha from the accumulated colour and depth
AlphaGrad(l, idx, d, G, alpha, weight, ar, ard, bg_dot_dpixel) ==
    Reusable(l, idx, d, G, alpha, weight, ar, ard, bg_dot_dpixel,
             Add3(SumR([ch \in Chans |->
                           BehindTerm(l.c[ch], l.T, alpha, ar[ch], l.dL_dpixel[ch])],
                       0, NUM_CHANNELS - 1),
                  BehindTerm(l.invd, l.T, alpha, ard, l.dL_invdepth),
                  BoundaryTerm(l, alpha, bg_dot_dpixel)))
\* lines 605, 610 and 614
Weighted(l, idx, d, G, alpha, weight) ==
    AlphaGrad(l, idx, d, G, alpha, weight,
              [ch \in Chans |-> Add(l.ar[ch], Mul(weight, l.c[ch]))],
              Add(l.ard, Mul(weight, l.invd)),
              SumR([ch \in Chans |-> Mul(bg_color(ch), l.dL_dpixel[ch])], 0, NUM_CHANNELS - 1))
\* a faulty cutoff: the faintest sample is blended too
VisibleAlways(l, idx, d, G, alpha) == Weighted(l, idx, d, G, alpha, Mul(alpha, l.T))
\* lines 598-599
Visible(l, idx, d, G, alpha) ==
    IF Lt(alpha, Q(1, 255)) THEN Idle(l, idx, TRUE)
    ELSE Weighted(l, idx, d, G, alpha, Mul(alpha, l.T))
\* line 597
Opaque(l, idx, d, G) == Visible(l, idx, d, G, MinR(Q(99, 100), Mul(l.con_o.w, G)))
\* lines 595-596
Falloff(l, idx, d, power) ==
    IF Gt(power, Zero) THEN Idle(l, idx, TRUE) ELSE Opaque(l, idx, d, ExpR(power))
\* line 594
Offset(l, idx, d) ==
    Falloff(l, idx, d,
            Sub(Mul(Q(-1, 2), Add(Mul3(l.con_o.x, d.x, d.x), Mul3(l.con_o.z, d.y, d.y))),
                Mul3(l.con_o.y, d.x, d.y)))
\* lines 588-639: one sample, the lane's primitive at pixel idx of the tile
Blend(l, tile_id, idx) ==
    IF W <= pix_of(tile_id, idx).x \/ H <= pix_of(tile_id, idx).y THEN Idle(l, idx, TRUE)
    ELSE IF BeyondLast(l) THEN Idle(l, idx, TRUE)
    ELSE Offset(l, idx, [x |-> Sub(l.xy.x, I(pix_of(tile_id, idx).x)),
                         y |-> Sub(l.xy.y, I(pix_of(tile_id, idx).y))])

\* lines 565-587: the pixel of the lane at outer step i, and whether it works
Work(b, loaded, idx) ==
    IF loaded.valid_splat /\ valid_pixel(bucket_to_tile(b), idx) /\ 0 <= idx /\ idx < BLOCK_SIZE
    THEN Blend(loaded, bucket_to_tile(b), idx)
    ELSE Idle(loaded, idx, FALSE)
LaneStep(b, l, rank, i) == Work(b, LoadState(b, l, rank, i - rank), i - rank)

\* a faulty bound: the pipeline is not drained
OuterStepsShort == BLOCK_SIZE
\* line 549: the number of outer steps
OuterSteps == BLOCK_SIZE + (WARP - 1)

\* lines 549-641: one outer step of a warp, all lanes in lockstep
LoopStep(b) ==
    /\ warp[b].pc = "loop"
    /\ warp[b].i < OuterSteps
    /\ LET i == warp[b].i
           shuffled == [rank \in Lanes |-> shfl_up(warp[b].lane, rank)]
           stepped == [rank \in Lanes |-> LaneStep(b, shuffled[rank], rank, i)]
       IN  warp' = [warp EXCEPT ![b] =
                        [pc |-> IF i + 1 < OuterSteps THEN "loop" ELSE "flush",
                         i |-> i + 1, k |-> 0, adds |-> warp[b].adds, lane |-> stepped]]
    /\ UNCHANGED <<phase, renderIn, renderOut, preprocessState, preprocessOut>>

\* a faulty update that stores instead of adding
atomicStore(buf, key, val) == [buf EXCEPT ![key] = val]
\* atomicAdd on one buffer entry
atomicAdd(buf, key, val) == [buf EXCEPT ![key] = Add(@, val)]
\* one atomicAdd instruction of a warp: every lane with a valid primitive adds
RECURSIVE WarpAtomicAdd(_, _, _, _, _)
WarpAtomicAdd(buf, valid, key, val, rank) ==
    IF rank < 0 THEN buf
    ELSE LET prev == WarpAtomicAdd(buf, valid, key, val, rank - 1)
         IN  IF valid[rank] THEN atomicAdd(prev, key[rank], val[rank]) ELSE prev

\* lines 644-659: the atomicAdd instructions in program order
FlushSteps == NUM_CHANNELS + 9
FlushBuffer(k) ==
    IF k <= 3 THEN "dL_dmean2D"
    ELSE IF k <= 6 THEN "dL_dconic2D"
    ELSE IF k = 7 THEN "dL_dopacity"
    ELSE IF k < 8 + NUM_CHANNELS THEN "dL_dcolors"
    ELSE "dL_dinvdepths"
FlushKey(k, l) ==
    IF k <= 3 THEN 4 * l.gaussian_idx + k
    ELSE IF k <= 5 THEN 4 * l.gaussian_idx + (k - 4)
    ELSE IF k = 6 THEN 4 * l.gaussian_idx + 3
    ELSE IF k = 7 THEN l.gaussian_idx
    ELSE IF k < 8 + NUM_CHANNELS THEN l.gaussian_idx * NUM_CHANNELS + (k - 8)
    ELSE l.gaussian_idx
\* a faulty flush: the magnitude channels receive the signed sums
FlushValSigned(k, l) ==
    IF k = 0 \/ k = 2 THEN l.Register_dL_dmean2D_x
    ELSE IF k = 1 \/ k = 3 THEN l.Register_dL_dmean2D_y
    ELSE IF k = 4 THEN l.Register_dL_dconic2D_x
    ELSE IF k = 5 THEN l.Register_dL_dconic2D_y
    ELSE IF k = 6 THEN l.Register_dL_dconic2D_w
    ELSE IF k = 7 THEN l.Register_dL_dopacity
    ELSE IF k < 8 + NUM_CHANNELS THEN l.Register_dL_dcolors[k - 8]
    ELSE l.Register_dL_dinvdepths
\* lines 645-658: the value of instruction k
FlushVal(k, l) ==
    IF k = 0 THEN l.Register_dL_dmean2D_x
    ELSE IF k = 1 THEN l.Register_dL_dmean2D_y
    ELSE IF k = 2 THEN AbsR(l.Register_dL_dmean2D_x)
    ELSE IF k = 3 THEN AbsR(l.Register_dL_dmean2D_y)
    ELSE IF k = 4 THEN l.Register_dL_dconic2D_x
    ELSE IF k = 5 THEN l.Register_dL_dconic2D_y
    ELSE IF k = 6 THEN l.Register_dL_dconic2D_w
    ELSE IF k = 7 THEN l.Register_dL_dopacity
    ELSE IF k < 8 + NUM_CHANNELS THEN l.Register_dL_dcolors[k - 8]
    ELSE l.Register_dL_dinvdepths
\* a faulty guard: every lane flushes
FlushValidAll(b) == [rank \in Lanes |-> TRUE]
\* line 644: the lanes that flush
FlushValid(b) == [rank \in Lanes |-> warp[b].lane[rank].valid_splat]
Flushed(buf, b, k) ==
    WarpAtomicAdd(buf,
                  FlushValid(b),
                  [rank \in Lanes |-> FlushKey(k, warp[b].lane[rank])],
                  [rank \in Lanes |-> FlushVal(k, warp[b].lane[rank])],
                  WARP - 1)

Flush(b) ==
    /\ warp[b].pc = "flush"
    /\ LET k == warp[b].k
           to == FlushBuffer(k)
       IN  /\ dL_dmean2D' = IF to = "dL_dmean2D" THEN Flushed(dL_dmean2D, b, k) ELSE dL_dmean2D
           /\ dL_dconic2D' = IF to = "dL_dconic2D" THEN Flushed(dL_dconic2D, b, k) ELSE dL_dconic2D
           /\ dL_dopacity' = IF to = "dL_dopacity" THEN Flushed(dL_dopacity, b, k) ELSE dL_dopacity
           /\ dL_dcolors' = IF to = "dL_dcolors" THEN Flushed(dL_dcolors, b, k) ELSE dL_dcolors
           /\ dL_dinvdepths' =
                IF to = "dL_dinvdepths" THEN Flushed(dL_dinvdepths, b, k) ELSE dL_dinvdepths
           /\ warp' = [warp EXCEPT ![b].k = k + 1,
                                   ![b].pc = IF k + 1 < FlushSteps THEN "flush" ELSE "done",
                                   ![b].adds = [rank \in Lanes |->
                                                  @[rank] + IF FlushValid(b)[rank] THEN 1 ELSE 0]]
    /\ UNCHANGED <<phase, renderIn, preprocessState, preprocessOut>>

\* ------------------------------------------- inputs of BACKWARD::preprocess
\* the primitive whose covariance the caller may pass singular, and the culled one
SingG == 0
CulledG == P - 1
radii(g) == IF g = CulledG THEN 0 ELSE 1
means(g) ==
    IF g = LastG THEN V3(I(2), I(2), I(0))
    ELSE IF g % 2 = 1 THEN V3(I(2), I(1), I(1))
    ELSE V3(I(0), I(0), I(0))
\* column-major 4x4: a quarter turn about z, then one unit along z
viewmatrix(k) ==
    I(<<0, 1, 0, 0, -1, 0, 0, 0, 0, 0, 1, 0, 0, 0, 1, 1>>[k + 1])
\* column-major 4x4 with w = 2 z + 2
projmatrix(k) ==
    I(<<1, 0, 0, 0, 0, 2, 0, 0, 1, 0, 1, 2, 0, 1, 0, 2>>[k + 1])
focal_x == I(2)
focal_y == I(2)
tan_fovx == One
tan_fovy == One
campos == V3(I(0), I(0), I(-1))
opacities(g) == Q(1, 2)
scale_modifier == I(2)
scales(g) == V3(I(1), I((g % 2) + 1), I(1))
rotations(g) == IF g % 2 = 0 THEN [x |-> I(1), y |-> I(0), z |-> I(0), w |-> I(0)]
                ELSE [x |-> I(1), y |-> I(1), z |-> I(0), w |-> I(0)]
\* six entries of the symmetric 3D covariance per primitive, flat
RegularCov3D(g) ==
    IF g = LastG THEN <<Q(17, 40), I(0), I(0), Q(17, 40), I(0), I(0)>>
    ELSE IF g % 2 = 0 THEN <<Q(17, 40), I(0), I(0), Q(17, 40), I(0), I(1)>>
    ELSE <<Q(7, 10), I(0), I(0), Q(9, 20), I(0), I(1)>>
SingularCov3D == <<Q(7, 40), Q(1, 4), I(0), Q(7, 40), I(0), I(1)>>
cov3Ds(singular, k) ==
    IF singular /\ k \div 6 = SingG THEN SingularCov3D[(k % 6) + 1]
    ELSE RegularCov3D(k \div 6)[(k % 6) + 1]

\* auxiliary.h (not part of backward.cu)
transformPoint4x3(p, m(_)) ==
    V3(Add4(Mul(m(0), p.x), Mul(m(4), p.y), Mul(m(8), p.z), m(12)),
       Add4(Mul(m(1), p.x), Mul(m(5), p.y), Mul(m(9), p.z), m(13)),
       Add4(Mul(m(2), p.x), Mul(m(6), p.y), Mul(m(10), p.z), m(14)))
transformPoint4x4(p, m(_)) ==
    [x |-> Add4(Mul(m(0), p.x), Mul(m(4), p.y), Mul(m(8), p.z), m(12)),
     y |-> Add4(Mul(m(1), p.x), Mul(m(5), p.y), Mul(m(9), p.z), m(13)),
     z |-> Add4(Mul(m(2), p.x), Mul(m(6), p.y), Mul(m(10), p.z), m(14)),
     w |-> Add4(Mul(m(3), p.x), Mul(m(7), p.y), Mul(m(11), p.z), m(15))]
transformVec4x3Transpose(p, m(_)) ==
    V3(Add3(Mul(m(0), p.x), Mul(m(1), p.y), Mul(m(2), p.z)),
       Add3(Mul(m(4), p.x), Mul(m(5), p.y), Mul(m(6), p.z)),
       Add3(Mul(m(8), p.x), Mul(m(9), p.y), Mul(m(10), p.z)))

\* ------------------------------------------------- computeCov2DCUDA
h_var == Q(3, 10)
\* lines 176-185: the camera-space mean clamped to the frustum, and whether
\* the clamp leaves the gradient through x and y alive
ClampedBy(t0, limx, limy, txtz, tytz) ==
    [t |-> V3(Mul(MinR(limx, MaxR(Neg(limx), txtz)), t0.z),
              Mul(MinR(limy, MaxR(Neg(limy), tytz)), t0.z), t0.z),
     x_grad_mul |-> IF Lt(txtz, Neg(limx)) \/ Gt(txtz, limx) THEN Zero ELSE One,
     y_grad_mul |-> IF Lt(tytz, Neg(limy)) \/ Gt(tytz, limy) THEN Zero ELSE One]
Clamped(t0) ==
    ClampedBy(t0, Mul(Q(13, 10), tan_fovx), Mul(Q(13, 10), tan_fovy),
              Div(t0.x, t0.z), Div(t0.y, t0.z))
\* lines 187-189
Jacobian(t) ==
    M3(Div(focal_x, t.z), Zero, Div(Neg(Mul(focal_x, t.x)), Mul(t.z, t.z)),
       Zero, Div(focal_y, t.z), Div(Neg(Mul(focal_y, t.y)), Mul(t.z, t.z)),
       Zero, Zero, Zero)
\* lines 191-194
ViewRotation ==
    M3(viewmatrix(0), viewmatrix(4), viewmatrix(8),
       viewmatrix(1), viewmatrix(5), viewmatrix(9),
       viewmatrix(2), viewmatrix(6), viewmatrix(10))
\* lines 196-199
VrkOf(idx, singular) ==
    M3(cov3Ds(singular, 6 * idx), cov3Ds(singular, 6 * idx + 1), cov3Ds(singular, 6 * idx + 2),
       cov3Ds(singular, 6 * idx + 1), cov3Ds(singular, 6 * idx + 3), cov3Ds(singular, 6 * idx + 4),
       cov3Ds(singular, 6 * idx + 2), cov3Ds(singular, 6 * idx + 4), cov3Ds(singular, 6 * idx + 5))
\* lines 205-208: the entries of cov2D that are used
Cov2DEntries(c, cov3, WJ, cov2D) ==
    [t |-> c.t, x_grad_mul |-> c.x_grad_mul, y_grad_mul |-> c.y_grad_mul,
     W |-> ViewRotation, Vrk |-> cov3, T |-> WJ,
     c_xx |-> cov2D[0][0], c_xy |-> cov2D[0][1], c_yy |-> cov2D[1][1]]
\* line 203: cov2D = transpose(T) * transpose(Vrk) * T
Cov2DOf(c, cov3, WJ) ==
    Cov2DEntries(c, cov3, WJ, MMul(MMul(MTranspose(WJ), MTranspose(cov3)), WJ))
\* line 201: T = W * J
Cov2DAt(c, cov3) == Cov2DOf(c, cov3, MMul(ViewRotation, Jacobian(c.t)))
\* lines 173-208: camera-space mean with the frustum clamp, T = W * J, cov2D
Cov2DForward(idx, singular) ==
    Cov2DAt(Clamped(transformPoint4x3(means(idx), viewmatrix)), VrkOf(idx, singular))

\* a faulty regularization that applies the scaling to the opacity gradient twice
RegularizeTwice(f, antialiasing, dL_dopacity_v, opacity) ==
    LET det_cov == Sub(Mul(f.c_xx, f.c_yy), Mul(f.c_xy, f.c_xy))
        xx == Add(f.c_xx, h_var)
        yy == Add(f.c_yy, h_var)
        det_cov_plus_h_cov == Sub(Mul(xx, yy), Mul(f.c_xy, f.c_xy))
        ratio == Div(det_cov, det_cov_plus_h_cov)
        h_convolution_scaling == SqrtR(MaxR(Q(1, 40000), ratio))
        d_h_convolution_scaling == Mul(dL_dopacity_v, opacity)
    IN  IF antialiasing
        THEN [c_xx |-> xx, c_xy |-> f.c_xy, c_yy |-> yy,
              dL_dopacity |-> Mul(Mul(dL_dopacity_v, h_convolution_scaling),
                                  h_convolution_scaling),
              d_inside_root |-> IF Le(ratio, Q(1, 40000)) THEN Zero
                                ELSE Div(d_h_convolution_scaling,
                                         Mul(I(2), h_convolution_scaling))]
        ELSE [c_xx |-> xx, c_xy |-> f.c_xy, c_yy |-> yy,
              dL_dopacity |-> dL_dopacity_v, d_inside_root |-> Zero]
\* lines 210-228: the low-pass variance on the diagonal; with anti-aliasing,
\* the scaling of the opacity gradient and the derivative through the root
Regularize(f, antialiasing, dL_dopacity_v, opacity) ==
    LET det_cov == Sub(Mul(f.c_xx, f.c_yy), Mul(f.c_xy, f.c_xy))
        xx == Add(f.c_xx, h_var)
        yy == Add(f.c_yy, h_var)
        det_cov_plus_h_cov == Sub(Mul(xx, yy), Mul(f.c_xy, f.c_xy))
        ratio == Div(det_cov, det_cov_plus_h_cov)
        h_convolution_scaling == SqrtR(MaxR(Q(1, 40000), ratio))
        d_h_convolution_scaling == Mul(dL_dopacity_v, opacity)
    IN  IF antialiasing
        THEN [c_xx |-> xx, c_xy |-> f.c_xy, c_yy |-> yy,
              dL_dopacity |-> Mul(dL_dopacity_v, h_convolution_scaling),
              d_inside_root |-> IF Le(ratio, Q(1, 40000)) THEN Zero
                                ELSE Div(d_h_convolution_scaling,
                                         Mul(I(2), h_convolution_scaling))]
        ELSE [c_xx |-> xx, c_xy |-> f.c_xy, c_yy |-> yy,
              dL_dopacity |-> dL_dopacity_v, d_inside_root |-> Zero]

\* lines 230-248: the anti-aliasing part of the covariance-entry gradients
AATerm(r, antialiasing) ==
    LET x == r.c_xx
        y == r.c_yy
        z == r.c_xy
        w == h_var
        root == Sub(Add3(Mul(w, w), Mul(w, Add(x, y)), Mul(x, y)), Mul(z, z))
        denom_f == Div(r.d_inside_root, Mul(root, root))
    IN  IF antialiasing
        THEN [xx |-> Mul3(w, Add3(Mul(w, y), Mul(y, y), Mul(z, z)), denom_f),
              yy |-> Mul3(w, Add3(Mul(w, x), Mul(x, x), Mul(z, z)), denom_f),
              xy |-> Mul4(I(-2), w, Mul(z, Add3(w, x, y)), denom_f)]
        ELSE [xx |-> Zero, yy |-> Zero, xy |-> Zero]

\* line 253: the guard of the conic backward
ConicGuard(denom2inv) == denom2inv # Zero

\* lines 250-262: gradients w.r.t. the 2D covariance entries
CovEntryGrad(r, aa, dL_dconic) ==
    LET c_xx == r.c_xx
        c_xy == r.c_xy
        c_yy == r.c_yy
        denom == Sub(Mul(c_xx, c_yy), Mul(c_xy, c_xy))
        denom2inv == Div(One, AddEps(Mul(denom, denom)))
    IN  IF ConicGuard(denom2inv)
        THEN [guard |-> TRUE,
              xx |-> Add(aa.xx, Mul(denom2inv,
                       Add3(Mul3(Neg(c_yy), c_yy, dL_dconic.x),
                            Mul4(I(2), c_xy, c_yy, dL_dconic.y),
                            Mul(Sub(denom, Mul(c_xx, c_yy)), dL_dconic.z)))),
              yy |-> Add(aa.yy, Mul(denom2inv,
                       Add3(Mul3(Neg(c_xx), c_xx, dL_dconic.z),
                            Mul4(I(2), c_xx, c_xy, dL_dconic.y),
                            Mul(Sub(denom, Mul(c_xx, c_yy)), dL_dconic.x)))),
              xy |-> Add(aa.xy, Mul3(denom2inv, I(2),
                       Add3(Mul3(c_xy, c_yy, dL_dconic.x),
                            Neg(Mul(Add(denom, Mul3(I(2), c_xy, c_xy)), dL_dconic.y)),
                            Mul3(c_xx, c_xy, dL_dconic.z))))]
        ELSE [guard |-> FALSE, xx |-> aa.xx, yy |-> aa.yy, xy |-> aa.xy]

\* lines 266-282: the six entries of the 3D covariance gradient
Cov3DGrad(T, g) ==
    IF g.guard
    THEN [k \in 0 .. 5 |->
            IF k = 0 THEN Add3(Mul3(T[0][0], T[0][0], g.xx), Mul3(T[0][0], T[1][0], g.xy),
                               Mul3(T[1][0], T[1][0], g.yy))
            ELSE IF k = 3 THEN Add3(Mul3(T[0][1], T[0][1], g.xx), Mul3(T[0][1], T[1][1], g.xy),
                                    Mul3(T[1][1], T[1][1], g.yy))
            ELSE IF k = 5 THEN Add3(Mul3(T[0][2], T[0][2], g.xx), Mul3(T[0][2], T[1][2], g.xy),
                                    Mul3(T[1][2], T[1][2], g.yy))
            ELSE IF k = 1 THEN Add3(Mul4(I(2), T[0][0], T[0][1], g.xx),
                                    Mul(Add(Mul(T[0][0], T[1][1]), Mul(T[0][1], T[1][0])), g.xy),
                                    Mul4(I(2), T[1][0], T[1][1], g.yy))
            ELSE IF k = 2 THEN Add3(Mul4(I(2), T[0][0], T[0][2], g.xx),
                                    Mul(Add(Mul(T[0][0], T[1][2]), Mul(T[0][2], T[1][0])), g.xy),
                                    Mul4(I(2), T[1][0], T[1][2], g.yy))
            ELSE Add3(Mul4(I(2), T[0][2], T[0][1], g.xx),
                      Mul(Add(Mul(T[0][1], T[1][2]), Mul(T[0][2], T[1][1])), g.xy),
                      Mul4(I(2), T[1][1], T[1][2], g.yy))]
    ELSE [k \in 0 .. 5 |-> Zero]

\* lines 286-318: the part of the mean gradient that goes through the covariance
\* and the inverse depth
TV(A, V, i, j) ==
    Add3(Mul(A[i][0], V[j][0]), Mul(A[i][1], V[j][1]), Mul(A[i][2], V[j][2]))
\* lines 309-313: gradient w.r.t. the camera-space mean, back to world space
MeanGradT(f, dL_dinvdepth_v, dL_dJ00, dL_dJ02, dL_dJ11, dL_dJ12, tz2, tz3) ==
    transformVec4x3Transpose(
        V3(Mul4(f.x_grad_mul, Neg(focal_x), tz2, dL_dJ02),
           Mul4(f.y_grad_mul, Neg(focal_y), tz2, dL_dJ12),
           Sub(Add4(Mul3(Neg(focal_x), tz2, dL_dJ00),
                    Neg(Mul3(focal_y, tz2, dL_dJ11)),
                    Mul3(Mul3(I(2), focal_x, f.t.x), tz3, dL_dJ02),
                    Mul3(Mul3(I(2), focal_y, f.t.y), tz3, dL_dJ12)),
               Mul(dL_dinvdepth_v, tz2))),
        viewmatrix)
\* lines 302-304
MeanGradTz(f, dL_dinvdepth_v, dL_dJ00, dL_dJ02, dL_dJ11, dL_dJ12, tz, tz2) ==
    MeanGradT(f, dL_dinvdepth_v, dL_dJ00, dL_dJ02, dL_dJ11, dL_dJ12, tz2, Mul(tz2, tz))
MeanGradJ(f, dL_dinvdepth_v, dL_dJ00, dL_dJ02, dL_dJ11, dL_dJ12, tz) ==
    MeanGradTz(f, dL_dinvdepth_v, dL_dJ00, dL_dJ02, dL_dJ11, dL_dJ12, tz, Mul(tz, tz))
\* lines 297-300: dL_dT[i][j] are the gradients w.r.t. the upper rows of T
MeanGradOfT(f, dL_dinvdepth_v, Wm, dL_dT) ==
    MeanGradJ(f, dL_dinvdepth_v,
              Add3(Mul(Wm[0][0], dL_dT[0][0]), Mul(Wm[0][1], dL_dT[0][1]), Mul(Wm[0][2], dL_dT[0][2])),
              Add3(Mul(Wm[2][0], dL_dT[0][0]), Mul(Wm[2][1], dL_dT[0][1]), Mul(Wm[2][2], dL_dT[0][2])),
              Add3(Mul(Wm[1][0], dL_dT[1][0]), Mul(Wm[1][1], dL_dT[1][1]), Mul(Wm[1][2], dL_dT[1][2])),
              Add3(Mul(Wm[2][0], dL_dT[1][0]), Mul(Wm[2][1], dL_dT[1][1]), Mul(Wm[2][2], dL_dT[1][2])),
              Div(One, f.t.z))
\* lines 286-297
Cov2DMeanGrad(f, g, dL_dinvdepth_v) ==
    MeanGradOfT(f, dL_dinvdepth_v, f.W,
                [i \in 0 .. 1 |-> [j \in 0 .. 2 |->
                    Add(Mul3(I(2), TV(f.T, f.Vrk, i, j), IF i = 0 THEN g.xx ELSE g.yy),
                        Mul(TV(f.T, f.Vrk, 1 - i, j), g.xy))]])

\* ------------------------------------------------- computeColorFromSH
\* highest degree of the basis, and the coefficients per primitive besides
\* the direct colour
MaxDegree == 3
MaxCoeffs == (MaxDegree + 1) * (MaxDegree + 1) - 1
\* the basis constants of auxiliary.h, to two decimals
SH_C0 == Q(28, 100)
SH_C1 == Q(49, 100)
SH_C2(k) == <<Q(109, 100), Q(-109, 100), Q(32, 100), Q(-109, 100), Q(55, 100)>>[k + 1]
SH_C3(k) ==
    <<Q(-59, 100), Q(289, 100), Q(-46, 100), Q(37, 100), Q(-46, 100), Q(145, 100),
      Q(-59, 100)>>[k + 1]
\* inputs: the coefficients and the clamp flags saved by the forward pass
shs(k) == I((k % 5) - 2)
clamped(k) == k % 4 = 1

\* auxiliary.h: backward of the normalization v / |v|
dnormvdvBy(v, dv, sum2, invsum32) ==
        V3(Mul(Sub(Sub(Mul(Sub(sum2, Mul(v.x, v.x)), dv.x), Mul3(v.y, v.x, dv.y)),
                   Mul3(v.z, v.x, dv.z)), invsum32),
           Mul(Sub(Add(Mul3(Neg(v.x), v.y, dv.x), Mul(Sub(sum2, Mul(v.y, v.y)), dv.y)),
                   Mul3(v.z, v.y, dv.z)), invsum32),
           Mul(Add(Sub(Mul3(Neg(v.x), v.z, dv.x), Mul3(v.y, v.z, dv.y)),
                   Mul(Sub(sum2, Mul(v.z, v.z)), dv.z)), invsum32))
dnormvdvOver(v, dv, sum2) == dnormvdvBy(v, dv, sum2, Div(One, SqrtR(Mul3(sum2, sum2, sum2))))
dnormvdv(v, dv) == dnormvdvOver(v, dv, Add3(Mul(v.x, v.x), Mul(v.y, v.y), Mul(v.z, v.z)))

\* a faulty mask: the flags are ignored
ClampMaskNone(idx, dL_dRGB) == dL_dRGB
\* lines 35-38: the clamp flags zero the channels of the colour gradient
ClampMask(idx, dL_dRGB) ==
    V3(Mul(dL_dRGB.x, IF clamped(3 * idx + 0) THEN Zero ELSE One),
       Mul(dL_dRGB.y, IF clamped(3 * idx + 1) THEN Zero ELSE One),
       Mul(dL_dRGB.z, IF clamped(3 * idx + 2) THEN Zero ELSE One))

\* lines 52-102: the factor of dL_dRGB written to dL_dsh[j] (j >= 0) and to the
\* direct colour (j = -1)
dRGBdshOf(j, x, y, z, xx, yy, zz, xy, yz, xz) ==
        CASE j = -1 -> SH_C0
          [] j = 0 -> Mul(Neg(SH_C1), y)
          [] j = 1 -> Mul(SH_C1, z)
          [] j = 2 -> Mul(Neg(SH_C1), x)
          [] j = 3 -> Mul(SH_C2(0), xy)
          [] j = 4 -> Mul(SH_C2(1), yz)
          [] j = 5 -> Mul(SH_C2(2), Sub(Sub(Mul(I(2), zz), xx), yy))
          [] j = 6 -> Mul(SH_C2(3), xz)
          [] j = 7 -> Mul(SH_C2(4), Sub(xx, yy))
          [] j = 8 -> Mul3(SH_C3(0), y, Sub(Mul(I(3), xx), yy))
          [] j = 9 -> Mul3(SH_C3(1), xy, z)
          [] j = 10 -> Mul3(SH_C3(2), y, Sub(Sub(Mul(I(4), zz), xx), yy))
          [] j = 11 -> Mul3(SH_C3(3), z, Sub(Sub(Mul(I(2), zz), Mul(I(3), xx)), Mul(I(3), yy)))
          [] j = 12 -> Mul3(SH_C3(4), x, Sub(Sub(Mul(I(4), zz), xx), yy))
          [] j = 13 -> Mul3(SH_C3(5), z, Sub(xx, yy))
          [] OTHER -> Mul3(SH_C3(6), x, Sub(xx, Mul(I(3), yy)))
\* lines 69-70: the products of the direction components
dRGBdsh(j, x, y, z) ==
    dRGBdshOf(j, x, y, z, Mul(x, x), Mul(y, y), Mul(z, z), Mul(x, y), Mul(y, z), Mul(x, z))
\* the number of dL_dsh entries written for a degree
CoeffsWritten(deg) == IF deg > 2 THEN 15 ELSE IF deg > 1 THEN 8 ELSE IF deg > 0 THEN 3 ELSE 0

\* lines 63-127: derivatives of the colour w.r.t. the direction components
SHDirGradOf(deg, sh, x, y, z, xx, yy, zz, xy, yz, xz) ==
    LET dx1 == VScale(Neg(SH_C1), sh[2])
        dy1 == VScale(Neg(SH_C1), sh[0])
        dz1 == VScale(SH_C1, sh[1])
        dx2 == VSum(<<VScale(Mul(SH_C2(0), y), sh[3]),
                      VScale(Mul3(SH_C2(2), I(2), Neg(x)), sh[5]),
                      VScale(Mul(SH_C2(3), z), sh[6]),
                      VScale(Mul3(SH_C2(4), I(2), x), sh[7])>>)
        dy2 == VSum(<<VScale(Mul(SH_C2(0), x), sh[3]),
                      VScale(Mul(SH_C2(1), z), sh[4]),
                      VScale(Mul3(SH_C2(2), I(2), Neg(y)), sh[5]),
                      VScale(Mul3(SH_C2(4), I(2), Neg(y)), sh[7])>>)
        dz2 == VSum(<<VScale(Mul(SH_C2(1), y), sh[4]),
                      VScale(Mul4(SH_C2(2), I(2), I(2), z), sh[5]),
                      VScale(Mul(SH_C2(3), x), sh[6])>>)
        dx3 == VSum(<<VScale(Mul4(SH_C3(0), I(3), I(2), xy), sh[8]),
                      VScale(Mul(SH_C3(1), yz), sh[9]),
                      VScale(Mul3(SH_C3(2), I(-2), xy), sh[10]),
                      VScale(Mul4(SH_C3(3), I(-3), I(2), xz), sh[11]),
                      VScale(Mul(SH_C3(4), Sub(Add(Mul(I(-3), xx), Mul(I(4), zz)), yy)), sh[12]),
                      VScale(Mul3(SH_C3(5), I(2), xz), sh[13]),
                      VScale(Mul3(SH_C3(6), I(3), Sub(xx, yy)), sh[14])>>)
        dy3 == VSum(<<VScale(Mul3(SH_C3(0), I(3), Sub(xx, yy)), sh[8]),
                      VScale(Mul(SH_C3(1), xz), sh[9]),
                      VScale(Mul(SH_C3(2), Sub(Add(Mul(I(-3), yy), Mul(I(4), zz)), xx)), sh[10]),
                      VScale(Mul4(SH_C3(3), I(-3), I(2), yz), sh[11]),
                      VScale(Mul3(SH_C3(4), I(-2), xy), sh[12]),
                      VScale(Mul3(SH_C3(5), I(-2), yz), sh[13]),
                      VScale(Mul4(SH_C3(6), I(-3), I(2), xy), sh[14])>>)
        dz3 == VSum(<<VScale(Mul(SH_C3(1), xy), sh[9]),
                      VScale(Mul4(SH_C3(2), I(4), I(2), yz), sh[10]),
                      VScale(Mul3(SH_C3(3), I(3), Sub(Sub(Mul(I(2), zz), xx), yy)), sh[11]),
                      VScale(Mul4(SH_C3(4), I(4), I(2), xz), sh[12]),
                      VScale(Mul(SH_C3(5), Sub(xx, yy)), sh[13])>>)
    IN  [dRGBdx |-> VSum(<<IF deg > 0 THEN dx1 ELSE V3Zero, IF deg > 1 THEN dx2 ELSE V3Zero,
                           IF deg > 2 THEN dx3 ELSE V3Zero>>),
         dRGBdy |-> VSum(<<IF deg > 0 THEN dy1 ELSE V3Zero, IF deg > 1 THEN dy2 ELSE V3Zero,
                           IF deg > 2 THEN dy3 ELSE V3Zero>>),
         dRGBdz |-> VSum(<<IF deg > 0 THEN dz1 ELSE V3Zero, IF deg > 1 THEN dz2 ELSE V3Zero,
                           IF deg > 2 THEN dz3 ELSE V3Zero>>)]

SHDirGrad(deg, sh, x, y, z) ==
    SHDirGradOf(deg, sh, x, y, z, Mul(x, x), Mul(y, y), Mul(z, z), Mul(x, y), Mul(y, z),
                Mul(x, z))

\* line 28: v / |v|
Over(v, len) == V3(Div(v.x, len), Div(v.y, len), Div(v.z, len))
Normalized(v) == Over(v, SqrtR(VDot(v, v)))
\* lines 53-102 and 135-143: the gradients written, from the colour gradient
\* dL_dRGB and the derivatives g of the colour w.r.t. the direction
SHGrads(deg, dir_orig, dir, dL_dRGB, g) ==
    [dL_ddc |-> VScale(SH_C0, dL_dRGB),
     dL_dsh |-> [j \in 0 .. (CoeffsWritten(deg) - 1) |->
                    VScale(dRGBdsh(j, dir.x, dir.y, dir.z), dL_dRGB)],
     dL_dmean |-> dnormvdv(dir_orig, V3(VDot(g.dRGBdx, dL_dRGB), VDot(g.dRGBdy, dL_dRGB),
                                        VDot(g.dRGBdz, dL_dRGB)))]
SHAlong(deg, sh, dir_orig, dir, dL_dRGB) ==
    SHGrads(deg, dir_orig, dir, dL_dRGB, SHDirGrad(deg, sh, dir.x, dir.y, dir.z))
SHFrom(deg, sh, dir_orig, dL_dRGB) == SHAlong(deg, sh, dir_orig, Normalized(dir_orig), dL_dRGB)
\* lines 23-144: what the call writes for primitive idx
computeColorFromSH(idx, deg, max_coeffs, dL_dcolor) ==
    SHFrom(deg,
           [j \in 0 .. (max_coeffs - 1) |->
              V3(shs(3 * (idx * max_coeffs + j)), shs(3 * (idx * max_coeffs + j) + 1),
                 shs(3 * (idx * max_coeffs + j) + 2))],
           VSub(means(idx), campos),
           ClampMask(idx, V3(dL_dcolor[3 * idx], dL_dcolor[3 * idx + 1], dL_dcolor[3 * idx + 2])))

\* ------------------------------------------------------- computeCov3D
\* lines 328-390: scale and rotation gradients from the 3D covariance gradient
\* lines 338-344: the rotation matrix of the quaternion (r, x, y, z)
RotationMatrix(r, x, y, z) ==
    M3(Sub(One, Mul(I(2), Add(Mul(y, y), Mul(z, z)))), Mul(I(2), Sub(Mul(x, y), Mul(r, z))),
       Mul(I(2), Add(Mul(x, z), Mul(r, y))),
       Mul(I(2), Add(Mul(x, y), Mul(r, z))), Sub(One, Mul(I(2), Add(Mul(x, x), Mul(z, z)))),
       Mul(I(2), Sub(Mul(y, z), Mul(r, x))),
       Mul(I(2), Sub(Mul(x, z), Mul(r, y))), Mul(I(2), Add(Mul(y, z), Mul(r, x))),
       Sub(One, Mul(I(2), Add(Mul(x, x), Mul(y, y)))))
\* lines 356-360: the symmetric gradient matrix, off-diagonal entries halved
SigmaGrad(c) ==
    M3(c[0], Mul(Q(1, 2), c[1]), Mul(Q(1, 2), c[2]),
       Mul(Q(1, 2), c[1]), c[3], Mul(Q(1, 2), c[4]),
       Mul(Q(1, 2), c[2]), Mul(Q(1, 2), c[4]), c[5])
\* lines 376-378: dL_dMt with its columns scaled by s
ScaledColumns(dL_dMt, s) ==
    M3(Mul(dL_dMt[0][0], s.x), Mul(dL_dMt[0][1], s.x), Mul(dL_dMt[0][2], s.x),
       Mul(dL_dMt[1][0], s.y), Mul(dL_dMt[1][1], s.y), Mul(dL_dMt[1][2], s.y),
       Mul(dL_dMt[2][0], s.z), Mul(dL_dMt[2][1], s.z), Mul(dL_dMt[2][2], s.z))
\* lines 381-386: gradient of the loss w.r.t. the quaternion
RotGrad(r, x, y, z, m) ==
    [x |-> Add3(Mul3(I(2), z, Sub(m[0][1], m[1][0])), Mul3(I(2), y, Sub(m[2][0], m[0][2])),
                Mul3(I(2), x, Sub(m[1][2], m[2][1]))),
     y |-> Sub(Add3(Mul3(I(2), y, Add(m[1][0], m[0][1])), Mul3(I(2), z, Add(m[2][0], m[0][2])),
                    Mul3(I(2), r, Sub(m[1][2], m[2][1]))),
               Mul3(I(4), x, Add(m[2][2], m[1][1]))),
     z |-> Sub(Add3(Mul3(I(2), x, Add(m[1][0], m[0][1])), Mul3(I(2), r, Sub(m[2][0], m[0][2])),
                    Mul3(I(2), z, Add(m[1][2], m[2][1]))),
               Mul3(I(4), y, Add(m[2][2], m[0][0]))),
     w |-> Sub(Add3(Mul3(I(2), r, Sub(m[0][1], m[1][0])), Mul3(I(2), x, Add(m[2][0], m[0][2])),
                    Mul3(I(2), y, Add(m[1][2], m[2][1]))),
               Mul3(I(4), z, Add(m[1][1], m[0][0])))]
\* lines 365-389: the two gradients from Rt and dL_dMt
ScaleRotGrad(rot, s, Rt, dL_dMt) ==
    [dL_dscale |-> V3(VDot(MCol(Rt, 0), MCol(dL_dMt, 0)), VDot(MCol(Rt, 1), MCol(dL_dMt, 1)),
                      VDot(MCol(Rt, 2), MCol(dL_dMt, 2))),
     dL_drot |-> RotGrad(rot.x, rot.y, rot.z, rot.w, ScaledColumns(dL_dMt, s))]
\* lines 346-368: M = S * R, dL_dM = 2 * M * dL_dSigma
MatrixGrad(rot, s, R, dL_dSigma) ==
    ScaleRotGrad(rot, s, MTranspose(R),
                 MTranspose(MMul(MScale(I(2), MMul(M3(s.x, Zero, Zero, Zero, s.y, Zero,
                                                      Zero, Zero, s.z), R)),
                                 dL_dSigma)))
computeCov3D(idx, scale, mod, rot, dL_dcov3Ds) ==
    MatrixGrad(rot, VScale(mod, scale), RotationMatrix(rot.x, rot.y, rot.z, rot.w),
               SigmaGrad([k \in 0 .. 5 |-> dL_dcov3Ds[6 * idx + k]]))

\* --------------------------------------------------------- preprocessCUDA
\* lines 431-436: the mean gradient induced by the screen-space mean gradient
ProjGrad(m_w, mul1, mul2, dx, dy) ==
    V3(Add(Mul(Sub(Mul(projmatrix(0), m_w), Mul(projmatrix(3), mul1)), dx),
           Mul(Sub(Mul(projmatrix(1), m_w), Mul(projmatrix(3), mul2)), dy)),
       Add(Mul(Sub(Mul(projmatrix(4), m_w), Mul(projmatrix(7), mul1)), dx),
           Mul(Sub(Mul(projmatrix(5), m_w), Mul(projmatrix(7), mul2)), dy)),
       Add(Mul(Sub(Mul(projmatrix(8), m_w), Mul(projmatrix(11), mul1)), dx),
           Mul(Sub(Mul(projmatrix(9), m_w), Mul(projmatrix(11), mul2)), dy)))
\* lines 428-429
ProjScaled(m, m_w, dx, dy) ==
    ProjGrad(m_w,
             Mul3(Add4(Mul(projmatrix(0), m.x), Mul(projmatrix(4), m.y),
                       Mul(projmatrix(8), m.z), projmatrix(12)), m_w, m_w),
             Mul3(Add4(Mul(projmatrix(1), m.x), Mul(projmatrix(5), m.y),
                       Mul(projmatrix(9), m.z), projmatrix(13)), m_w, m_w),
             dx, dy)
\* lines 423-436
ProjMeanGrad(idx, mean2D) ==
    ProjScaled(means(idx), Div(One, AddEps(transformPoint4x4(means(idx), projmatrix).w)),
               mean2D[4 * idx], mean2D[4 * idx + 1])

\* ----------------------------------------------------- BACKWARD::preprocess
\* the threads of the two grids: one per primitive, and one beyond the last
Threads == 0 .. P
\* a faulty test that lets the thread of a culled primitive run
SkippedBeyondOnly(idx) == idx >= P
\* lines 165 and 420: a thread without a primitive, or with a culled one, returns
Skipped(idx) == idx >= P \/ ~(radii(idx) > 0)

\* a float3 stored to, or added to, three consecutive floats
VComp(v, c) == IF c = 0 THEN v.x ELSE IF c = 1 THEN v.y ELSE v.z
WriteV3(buf, base, v) ==
    [k \in DOMAIN buf |-> IF base <= k /\ k < base + 3 THEN VComp(v, k - base) ELSE buf[k]]
AddV3(buf, base, v) ==
    [k \in DOMAIN buf |->
        IF base <= k /\ k < base + 3 THEN Add(buf[k], VComp(v, k - base)) ELSE buf[k]]
\* a faulty store that accumulates
StoreMeanAdd(buf, idx, v) == AddV3(buf, 3 * idx, v)
\* line 323
StoreMean(buf, idx, v) == WriteV3(buf, 3 * idx, v)

\* the calls the host may make: the singular covariance is passed only without
\* anti-aliasing (with it, line 218 divides by the zero determinant), and then
\* without the optional outputs
PreprocessCalls ==
    {[antialiasing |-> aa, singular |-> FALSE, has_shs |-> d >= 0, has_scales |-> sc,
      D |-> IF d >= 0 THEN d ELSE 0] :
        aa \in BOOLEAN, sc \in BOOLEAN, d \in -1 .. MaxDegree}
    \cup {[antialiasing |-> FALSE, singular |-> TRUE, has_shs |-> FALSE, has_scales |-> FALSE,
           D |-> 0]}
NoCall == [antialiasing |-> FALSE, singular |-> FALSE, has_shs |-> FALSE, has_scales |-> FALSE,
           D |-> 0]
BlankCov ==
    [ran |-> FALSE, after_render |-> FALSE, c_xx |-> Zero, c_xy |-> Zero, c_yy |-> Zero,
     dL_dopacity_v |-> Zero, aa |-> [xx |-> Zero, yy |-> Zero, xy |-> Zero],
     dL_dc |-> [guard |-> FALSE, xx |-> Zero, yy |-> Zero, xy |-> Zero]]

\* a faulty order: the render kernel is taken to have finished at any time
RenderDoneAssumed == TRUE
\* every warp of the render kernel has finished
RenderDone == \A b \in Buckets : warp[b].pc = "done"

\* lines 662-738: the host launches computeCov2DCUDA, then preprocessCUDA; the
\* caller has run BACKWARD::render on the same stream before
Launch ==
    /\ phase = "render"
    /\ RenderDone
    /\ pin' \in PreprocessCalls
    /\ phase' = "preprocess"
    /\ UNCHANGED <<renderIn, warp, renderOut, tpc, cov, preprocessOut>>

\* lines 149-324: one thread of computeCov2DCUDA
Cov2D(idx) ==
    /\ phase = "preprocess"
    /\ tpc[idx] = "cov2d"
    /\ tpc' = [tpc EXCEPT ![idx] = "prep"]
    /\ IF Skipped(idx)
       THEN UNCHANGED <<cov, dL_dopacity, dL_dcov3D, dL_dmeans>>
       ELSE \E forward \in {Cov2DForward(idx, pin.singular)} :
            \E regular \in {Regularize(forward, pin.antialiasing, dL_dopacity[idx],
                                        opacities(idx))} :
            \E aaterm \in {AATerm(regular, pin.antialiasing)} :
            \E dL_dc \in {CovEntryGrad(regular, aaterm,
                                        [x |-> dL_dconic2D[4 * idx],
                                         y |-> dL_dconic2D[4 * idx + 1],
                                         z |-> dL_dconic2D[4 * idx + 3]])} :
            \E dL_dcov \in {Cov3DGrad(forward.T, dL_dc)} :
            \E dL_dmean \in {Cov2DMeanGrad(forward, dL_dc, dL_dinvdepths[idx])} :
                /\ cov' = [cov EXCEPT ![idx] =
                             [ran |-> TRUE, after_render |-> RenderDone,
                              c_xx |-> regular.c_xx, c_xy |-> regular.c_xy,
                              c_yy |-> regular.c_yy,
                              dL_dopacity_v |-> IF pin.antialiasing THEN dL_dopacity[idx] ELSE Zero,
                              aa |-> aaterm, dL_dc |-> dL_dc]]
                /\ dL_dopacity' = IF pin.antialiasing
                                  THEN [dL_dopacity EXCEPT ![idx] = regular.dL_dopacity]
                                  ELSE dL_dopacity
                /\ dL_dcov3D' = [k \in DOMAIN dL_dcov3D |->
                                    IF k \div 6 = idx THEN dL_dcov[k % 6] ELSE dL_dcov3D[k]]
                /\ dL_dmeans' = StoreMean(dL_dmeans, idx, dL_dmean)
    /\ UNCHANGED <<phase, renderIn, warp, dL_dmean2D, dL_dconic2D, dL_dcolors, dL_dinvdepths,
                   pin, dL_ddc, dL_dsh, dL_dscale, dL_drot>>

\* lines 397-449: one thread of preprocessCUDA; the kernel starts when the
\* grid of computeCov2DCUDA has finished
Preprocess(idx) ==
    /\ phase = "preprocess"
    /\ RenderDone
    /\ \A j \in Threads : tpc[j] # "cov2d"
    /\ tpc[idx] = "prep"
    /\ tpc' = [tpc EXCEPT ![idx] = "done"]
    /\ IF Skipped(idx)
       THEN UNCHANGED preprocessOut
       ELSE \E dL_dmean \in {ProjMeanGrad(idx, dL_dmean2D)} :
            \E sh \in {IF pin.has_shs
                        THEN computeColorFromSH(idx, pin.D, MaxCoeffs, dL_dcolors)
                        ELSE [dL_ddc |-> V3Zero, dL_dsh |-> <<>>, dL_dmean |-> V3Zero]} :
            \E c3 \in {IF pin.has_scales
                        THEN computeCov3D(idx, scales(idx), scale_modifier, rotations(idx),
                                          dL_dcov3D)
                        ELSE [dL_dscale |-> V3Zero,
                              dL_drot |-> [x |-> Zero, y |-> Zero, z |-> Zero, w |-> Zero]]} :
                /\ dL_dmeans' = IF pin.has_shs
                                THEN AddV3(AddV3(dL_dmeans, 3 * idx, dL_dmean), 3 * idx, sh.dL_dmean)
                                ELSE AddV3(dL_dmeans, 3 * idx, dL_dmean)
                /\ dL_ddc' = IF pin.has_shs THEN WriteV3(dL_ddc, 3 * idx, sh.dL_ddc) ELSE dL_ddc
                /\ dL_dsh' =
                     IF pin.has_shs
                     THEN [k \in DOMAIN dL_dsh |->
                             IF 3 * idx * MaxCoeffs <= k
                                /\ k < 3 * idx * MaxCoeffs + 3 * CoeffsWritten(pin.D)
                             THEN VComp(sh.dL_dsh[(k - 3 * idx * MaxCoeffs) \div 3],
                                        (k - 3 * idx * MaxCoeffs) % 3)
                             ELSE dL_dsh[k]]
                     ELSE dL_dsh
                /\ dL_dscale' = IF pin.has_scales THEN WriteV3(dL_dscale, 3 * idx, c3.dL_dscale)
                                ELSE dL_dscale
                /\ dL_drot' =
                     IF pin.has_scales
                     THEN [k \in DOMAIN dL_drot |->
                             IF k \div 4 = idx
                             THEN <<c3.dL_drot.x, c3.dL_drot.y, c3.dL_drot.z, c3.dL_drot.w>>[(k % 4) + 1]
                             ELSE dL_drot[k]]
                     ELSE dL_drot
                /\ UNCHANGED dL_dcov3D
    /\ UNCHANGED <<phase, renderIn, warp, renderOut, pin, cov>>

\* the caller's gradient buffers before the launch
InitialBuffer(n) == [k \in 0 .. (n - 1) |-> IF dirty THEN I((k % 3) + 1) ELSE Zero]
JunkValues == {I(13), I(-7)}

Init ==
    /\ phase = "render"
    /\ junk \in JunkValues
    /\ dirty \in BOOLEAN
    /\ \E op \in Opacities :
          /\ conic_opacity = SceneOf(op)
          /\ fwd = ForwardBuffers(SceneOf(op), junk)
    /\ warp = [b \in Buckets |->
                 [pc |-> "start", i |-> 0, k |-> 0, adds |-> [rank \in Lanes |-> 0],
                  lane |-> [rank \in Lanes |-> BlankLane]]]
    /\ dL_dmean2D = InitialBuffer(4 * P)
    /\ dL_dconic2D = InitialBuffer(4 * P)
    /\ dL_dopacity = InitialBuffer(P)
    /\ dL_dcolors = InitialBuffer(P * NUM_CHANNELS)
    /\ dL_dinvdepths = InitialBuffer(P)
    /\ pin = NoCall
    /\ tpc = [t \in Threads |-> "cov2d"]
    /\ cov = [g \in Gaussians |-> BlankCov]
    /\ dL_dmeans = InitialBuffer(3 * P)
    /\ dL_dcov3D = InitialBuffer(6 * P)
    /\ dL_ddc = InitialBuffer(3 * P)
    /\ dL_dsh = InitialBuffer(3 * P * MaxCoeffs)
    /\ dL_dscale = InitialBuffer(3 * P)
    /\ dL_drot = InitialBuffer(4 * P)

vars == <<phase, renderIn, warp, renderOut, preprocessState, preprocessOut>>

Next ==
    \/ \E b \in Buckets : Setup(b) \/ LoopStep(b) \/ Flush(b)
    \/ Launch
    \/ \E idx \in Threads : Cov2D(idx) \/ Preprocess(idx)

Spec == Init /\ [][Next]_vars

\* ----------------------------------------- reference for the render kernel
\* The brute-force reference handles one pixel at a time.  It walks the
\* tile's primitives front to back up to the pixel's recorded contributor
\* count, with the alpha of the primitive at position k replaced by a
\* (k = -1: no replacement).  The operators whose names end in "s" denote
\* one-element sets, so that every stage is a value before the next one
\* uses it.
RefStart == [T |-> One, C |-> ZeroC, D |-> Zero]
RefStep(st, tile_id, idx, n, k, a) ==
    LET g == TileGaussian(tile_id, n - 1)
        pix == pix_of(tile_id, idx)
        alpha == IF k = n - 1 THEN a ELSE FwdAlpha(conic_opacity, g, pix.x, pix.y)
    IN  IF ~FwdVisible(conic_opacity, g, pix.x, pix.y) THEN st
        ELSE [T |-> Mul(st.T, Sub(One, alpha)),
              C |-> [ch \in Chans |->
                       Add(st.C[ch], Mul3(colors(g * NUM_CHANNELS + ch), alpha, st.T))],
              D |-> Add(st.D, Mul3(Inv(depths(g)), alpha, st.T))]
RECURSIVE RefWalks(_, _, _, _, _)
RefWalks(tile_id, idx, n, k, a) ==
    IF n = 0 THEN {RefStart}
    ELSE {RefStep(st, tile_id, idx, n, k, a) : st \in RefWalks(tile_id, idx, n - 1, k, a)}

RefContributes(tile_id, idx, k) ==
    /\ k < fwd.n_contrib[pix_id_of(tile_id, idx)]
    /\ FwdVisible(conic_opacity, TileGaussian(tile_id, k),
                  pix_of(tile_id, idx).x, pix_of(tile_id, idx).y)

\* the loss as a function of the pixel's outputs, linearized at the upstream
\* gradients: colour (over the background when bg is set) and inverse depth
RefLoss(out, pix_id, bg) ==
    Add(SumR([ch \in Chans |->
                Mul(dL_dpixels(ch * H * W + pix_id),
                    IF bg THEN Add(out.C[ch], Mul(out.T, bg_color(ch))) ELSE out.C[ch])],
             0, NUM_CHANNELS - 1),
        Mul(dL_invdepths(pix_id), out.D))
\* the outputs are affine in each alpha, so the derivative is a difference
RefAlphaGrads(tile_id, idx, k, bg) ==
    {Sub(RefLoss(hi, pix_id_of(tile_id, idx), bg), RefLoss(lo, pix_id_of(tile_id, idx), bg)) :
        hi \in RefWalks(tile_id, idx, fwd.n_contrib[pix_id_of(tile_id, idx)], k, One),
        lo \in RefWalks(tile_id, idx, fwd.n_contrib[pix_id_of(tile_id, idx)], k, Zero)}

\* the gradient contributions of one sample (pixel idx, position k of the
\* tile), given the state before it and the derivative of the loss by its alpha
RefSample(before, dL_dalpha, tile_id, idx, k) ==
    LET g == TileGaussian(tile_id, k)
        pix == pix_of(tile_id, idx)
        pix_id == pix_id_of(tile_id, idx)
        dx == Sub(points_xy_image(g).x, I(pix.x))
        dy == Sub(points_xy_image(g).y, I(pix.y))
        con == conic_opacity[g]
        G == ExpR(FwdPower(conic_opacity, g, pix.x, pix.y))
        weight == Mul(before.T, FwdAlpha(conic_opacity, g, pix.x, pix.y))
        dL_dG == Mul(con.w, dL_dalpha)
        \* d power / d dx and d power / d dy
        dp_ddx == Neg(Add(Mul(con.x, dx), Mul(con.y, dy)))
        dp_ddy == Neg(Add(Mul(con.z, dy), Mul(con.y, dx)))
    IN  [mean_x |-> Mul4(dL_dG, G, dp_ddx, Q(W, 2)),
         mean_y |-> Mul4(dL_dG, G, dp_ddy, Q(H, 2)),
         conic_x |-> Mul4(dL_dG, G, Q(-1, 2), Mul(dx, dx)),
         conic_y |-> Mul4(dL_dG, G, Q(-1, 2), Mul(dx, dy)),
         conic_w |-> Mul4(dL_dG, G, Q(-1, 2), Mul(dy, dy)),
         opacity |-> Mul(G, dL_dalpha),
         color |-> [ch \in Chans |-> Mul(weight, dL_dpixels(ch * H * W + pix_id))],
         invdepth |-> Mul(weight, dL_invdepths(pix_id))]
RefZero ==
    [mean_x |-> Zero, mean_y |-> Zero, conic_x |-> Zero, conic_y |-> Zero, conic_w |-> Zero,
     opacity |-> Zero, color |-> ZeroC, invdepth |-> Zero]
RefPlus(u, v) ==
    [mean_x |-> Add(u.mean_x, v.mean_x), mean_y |-> Add(u.mean_y, v.mean_y),
     conic_x |-> Add(u.conic_x, v.conic_x), conic_y |-> Add(u.conic_y, v.conic_y),
     conic_w |-> Add(u.conic_w, v.conic_w), opacity |-> Add(u.opacity, v.opacity),
     color |-> [ch \in Chans |-> Add(u.color[ch], v.color[ch])],
     invdepth |-> Add(u.invdepth, v.invdepth)]

\* all samples, numbered tile by tile, position by position, pixel by pixel
MaxSplats == WARP + 1
RefSamples == (horizontal_blocks * vertical_blocks) * MaxSplats * BLOCK_SIZE
RefTerms(g, n) ==
    LET tile_id == n \div (MaxSplats * BLOCK_SIZE)
        k == (n \div BLOCK_SIZE) % MaxSplats
        idx == n % BLOCK_SIZE
    IN  IF /\ k < TileSplats(tile_id)
           /\ TileGaussian(tile_id, k) = g
           /\ valid_pixel(tile_id, idx)
           /\ RefContributes(tile_id, idx, k)
        THEN {RefSample(before, dL_dalpha, tile_id, idx, k) :
                 before \in RefWalks(tile_id, idx, k, -1, Zero),
                 dL_dalpha \in RefAlphaGrads(tile_id, idx, k, TRUE)}
        ELSE {RefZero}
\* the sum of the samples lo..hi that belong to primitive g
RECURSIVE RefRanges(_, _, _)
RefRanges(g, lo, hi) ==
    IF lo = hi THEN RefTerms(g, lo)
    ELSE {RefPlus(u, v) : u \in RefRanges(g, lo, (lo + hi) \div 2),
                          v \in RefRanges(g, ((lo + hi) \div 2) + 1, hi)}
RefTotals(g) == RefRanges(g, 0, RefSamples - 1)
Initially(n, k) == InitialBuffer(n)[k]

\* C1: when every bucket has finished, each primitive's entries in the
\* mean2D (signed channels), conic, opacity, colour and inverse-depth gradient
\* buffers hold the initial value plus the brute-force reference's sum over
\* the pixels and tiles, whatever the split of a tile's range into buckets.
C1_RenderEqualsReference ==
    (phase = "render" /\ RenderDone) =>
        \A g \in Gaussians :
            \E ref \in RefTotals(g) :
                /\ dL_dmean2D[4 * g] = Add(Initially(4 * P, 4 * g), ref.mean_x)
                /\ dL_dmean2D[4 * g + 1] = Add(Initially(4 * P, 4 * g + 1), ref.mean_y)
                /\ dL_dconic2D[4 * g] = Add(Initially(4 * P, 4 * g), ref.conic_x)
                /\ dL_dconic2D[4 * g + 1] = Add(Initially(4 * P, 4 * g + 1), ref.conic_y)
                /\ dL_dconic2D[4 * g + 3] = Add(Initially(4 * P, 4 * g + 3), ref.conic_w)
                /\ dL_dopacity[g] = Add(Initially(P, g), ref.opacity)
                /\ \A ch \in Chans :
                      dL_dcolors[g * NUM_CHANNELS + ch] =
                          Add(Initially(P * NUM_CHANNELS, g * NUM_CHANNELS + ch), ref.color[ch])
                /\ dL_dinvdepths[g] = Add(Initially(P, g), ref.invdepth)
\* a tile of two buckets has been rendered, its second bucket contributing,
\* and a pixel of it stopped before the end of the tile's list
C1_Witness ==
    /\ phase = "render"
    /\ RenderDone
    /\ \E b \in Buckets :
          /\ bucket_idx_in_tile(b) > 0
          /\ warp[b].lane[0].valid_splat
          /\ warp[b].lane[0].Register_dL_dopacity # Zero
          /\ \E idx \in TileIdx :
                /\ valid_pixel(bucket_to_tile(b), idx)
                /\ fwd.n_contrib[pix_id_of(bucket_to_tile(b), idx)] < num_splats_in_tile(b)
                /\ FwdVisible(conic_opacity, warp[b].lane[0].gaussian_idx,
                              pix_of(bucket_to_tile(b), idx).x, pix_of(bucket_to_tile(b), idx).y)

\* ------------------------------------------------- the serial sum (C2)
\* the atomicAdd instructions bucket b has executed
Executed(b) ==
    IF warp[b].pc = "flush" THEN warp[b].k ELSE IF warp[b].pc = "done" THEN FlushSteps ELSE 0
\* the additions of instruction k of bucket b to the named buffer, lane by
\* lane from rank on; the sets of buffers hold one buffer each
RECURSIVE SerialLanes(_, _, _, _, _)
SerialLanes(bufs, name, b, k, rank) ==
    IF rank = WARP THEN bufs
    ELSE LET l == warp[b].lane[rank]
         IN  IF l.valid_splat /\ FlushBuffer(k) = name
             THEN UNION {SerialLanes({[buf EXCEPT ![FlushKey(k, l)] = Add(@, FlushVal(k, l))]},
                                     name, b, k, rank + 1) : buf \in bufs}
             ELSE SerialLanes(bufs, name, b, k, rank + 1)
\* the additions of instructions lo .. hi of the buckets, bucket by bucket in
\* program order (instruction n is instruction n % FlushSteps of bucket
\* n \div FlushSteps)
RECURSIVE SerialRange(_, _, _, _)
SerialRange(bufs, name, lo, hi) ==
    IF lo = hi
    THEN IF lo % FlushSteps < Executed(lo \div FlushSteps)
         THEN SerialLanes(bufs, name, lo \div FlushSteps, lo % FlushSteps, 0)
         ELSE bufs
    ELSE UNION {SerialRange({buf}, name, ((lo + hi) \div 2) + 1, hi) :
                   buf \in SerialRange(bufs, name, lo, (lo + hi) \div 2)}
SerialSum(name, n) == SerialRange({InitialBuffer(n)}, name, 0, B * FlushSteps - 1)

\* C2: in every state of every interleaving, each gradient buffer of the
\* render kernel holds its initial contents plus the partial sums that the
\* atomicAdd instructions executed so far have flushed, summed serially
\* bucket by bucket; at the end this is the serial sum over all buckets.
C2_AtomicSumIsSerial ==
    phase = "render" =>
        /\ dL_dmean2D \in SerialSum("dL_dmean2D", 4 * P)
        /\ dL_dconic2D \in SerialSum("dL_dconic2D", 4 * P)
        /\ dL_dopacity \in SerialSum("dL_dopacity", P)
        /\ dL_dcolors \in SerialSum("dL_dcolors", P * NUM_CHANNELS)
        /\ dL_dinvdepths \in SerialSum("dL_dinvdepths", P)
\* every bucket has flushed, two of them non-zero sums into the same entry
C2_Witness ==
    /\ phase = "render"
    /\ RenderDone
    /\ \E b1, b2 \in Buckets, r1, r2 \in Lanes :
          /\ b1 # b2
          /\ warp[b1].lane[r1].valid_splat
          /\ warp[b2].lane[r2].valid_splat
          /\ warp[b1].lane[r1].gaussian_idx = warp[b2].lane[r2].gaussian_idx
          /\ warp[b1].lane[r1].Register_dL_dopacity # Zero
          /\ warp[b2].lane[r2].Register_dL_dopacity # Zero

\* ------------------------------------------------ lanes and samples
LaneRegisters(l) ==
    <<l.Register_dL_dmean2D_x, l.Register_dL_dmean2D_y, l.Register_dL_dconic2D_x,
      l.Register_dL_dconic2D_y, l.Register_dL_dconic2D_w, l.Register_dL_dopacity,
      l.Register_dL_dcolors, l.Register_dL_dinvdepths>>
\* lane rank of bucket b handles a pixel of the image at outer step i
Handles(b, rank, i) ==
    /\ warp[b].lane[rank].valid_splat
    /\ 0 <= i - rank
    /\ i - rank < BLOCK_SIZE
    /\ valid_pixel(bucket_to_tile(b), i - rank)
\* the sample lies at or beyond the pixel's recorded contributor count
AtOrBeyondCount(b, rank, i) ==
    warp[b].lane[rank].splat_idx_in_tile >=
        fwd.n_contrib[pix_id_of(bucket_to_tile(b), i - rank)]

\* C3: when a lane handles a pixel whose recorded contributor count is at or
\* below the index of the lane's primitive in the tile, the step leaves every
\* gradient accumulator of the lane as it was.
C3_BeyondLastAddsNothing ==
    [][\A b \in Buckets, rank \in Lanes :
          (/\ warp[b].pc = "loop"
           /\ warp'[b].i = warp[b].i + 1
           /\ Handles(b, rank, warp[b].i)
           /\ AtOrBeyondCount(b, rank, warp[b].i))
          => LaneRegisters(warp'[b].lane[rank]) = LaneRegisters(warp[b].lane[rank])]_vars
\* a lane has just passed over a pixel that it would have blended by its
\* alpha, beyond the pixel's count, and holds a non-zero sum from another pixel
C3_Witness ==
    \E b \in Buckets, rank \in Lanes :
        LET l == warp[b].lane[rank]
            pix == pix_of(bucket_to_tile(b), l.idx)
        IN  /\ warp[b].pc \in {"loop", "flush"}
            /\ warp[b].i > 0
            /\ Handles(b, rank, warp[b].i - 1)
            /\ AtOrBeyondCount(b, rank, warp[b].i - 1)
            /\ FwdVisible(conic_opacity, l.gaussian_idx, pix.x, pix.y)
            /\ ~l.hit
            /\ l.Register_dL_dopacity # Zero

\* C4: a bucket whose first position in the tile is not below the tile's
\* maximum contributor count never enters the loop or the flush: it goes from
\* start to done in one step that changes no gradient buffer, and its lanes
\* never hold a primitive.
C4_UselessBucketSkipped ==
    [][\A b \in Buckets :
          bucket_idx_in_tile(b) * WARP >= fwd.max_contrib[bucket_to_tile(b)]
          => /\ warp[b].pc \in {"start", "done"}
             /\ warp'[b].pc \in {"start", "done"}
             /\ \A rank \in Lanes : ~warp'[b].lane[rank].valid_splat
             /\ (warp'[b] # warp[b] => renderOut' = renderOut)]_vars
\* such a bucket, holding a primitive of the tile, has been skipped while
\* another bucket flushed
C4_Witness ==
    \E b \in Buckets :
        /\ bucket_idx_in_tile(b) * WARP >= fwd.max_contrib[bucket_to_tile(b)]
        /\ valid_splat_of(b, 0)
        /\ warp[b].pc = "done"
        /\ \E c \in Buckets : warp[c].pc = "flush" /\ warp[c].k > 0

\* the sample a lane has just blended
SampleGrad(b, rank, bg) ==
    RefAlphaGrads(bucket_to_tile(b), warp[b].lane[rank].idx,
                  warp[b].lane[rank].splat_idx_in_tile, bg)
IsLastContributor(b, rank) ==
    warp[b].lane[rank].splat_idx_in_tile + 1 =
        fwd.n_contrib[pix_id_of(bucket_to_tile(b), warp[b].lane[rank].idx)]
Blended(b, rank) == warp[b].pc \in {"loop", "flush"} /\ warp[b].lane[rank].hit

\* C8 as stated: only the last contributing sample of a pixel receives the
\* background boundary term; an earlier sample's alpha gradient is the
\* derivative of colour and inverse depth without the background.
C8_BoundaryOnlyAtLast ==
    \A b \in Buckets, rank \in Lanes :
        Blended(b, rank) =>
            warp[b].lane[rank].dL_dalpha \in SampleGrad(b, rank, IsLastContributor(b, rank))
\* C8 amended: every contributing sample receives the boundary term; its
\* alpha gradient is the derivative of the composited colour over the
\* background and of the inverse depth.
C8_BoundaryAtEverySample ==
    \A b \in Buckets, rank \in Lanes :
        Blended(b, rank) => warp[b].lane[rank].dL_dalpha \in SampleGrad(b, rank, TRUE)
\* a sample that is not its pixel's last contributor has been blended with a
\* non-zero boundary term
C8_Witness ==
    \E b \in Buckets, rank \in Lanes :
        /\ Blended(b, rank)
        /\ ~IsLastContributor(b, rank)
        /\ warp[b].lane[rank].bg_dot_dpixel # Zero
        /\ warp[b].lane[rank].T_final # Zero

\* ------------------------------------------------ BACKWARD::preprocess
Ran(idx) == idx < P /\ radii(idx) > 0 /\ cov[idx].ran
\* the opacity gradients when the render kernel has flushed what it has
RenderOpacity(idx) == {buf[idx] : buf \in SerialSum("dL_dopacity", P)}
\* the part of the mean gradient that computeCov2DCUDA stores, from the
\* covariance-entry gradients it used
StoredMean(idx) == {Cov2DMeanGrad(f, cov[idx].dL_dc, dL_dinvdepths[idx]) :
                       f \in {Cov2DForward(idx, pin.singular)}}
AddedMean(idx) == {ProjMeanGrad(idx, dL_dmean2D)}
AddedSH(idx) ==
    IF pin.has_shs THEN {computeColorFromSH(idx, pin.D, MaxCoeffs, dL_dcolors).dL_dmean}
    ELSE {V3Zero}
MeanIs(idx, v) == \A c \in 0 .. 2 : dL_dmeans[3 * idx + c] = VComp(v, c)

\* C5: between the two kernels the mean gradient of a non-culled primitive is
\* the part computeCov2DCUDA stores, whatever the buffer held before; after
\* preprocessCUDA it is that part plus the projection part plus, with SH
\* colours, the SH part, added in this order.
C5_MeanGradient ==
    \A idx \in Gaussians :
        Ran(idx) =>
            \E stored \in StoredMean(idx) :
                /\ tpc[idx] = "prep" => MeanIs(idx, stored)
                /\ tpc[idx] = "done" =>
                      \E added \in AddedMean(idx) : \E sh \in AddedSH(idx) :
                          \E sum \in {VAdd(stored, added)} :
                              MeanIs(idx, IF pin.has_shs THEN VAdd(sum, sh) ELSE sum)
\* a buffer that held other values before the call has received the stored
\* part and both additions, each of them non-zero
C5_Witness ==
    /\ dirty
    /\ pin.has_shs
    /\ \E idx \in Gaussians :
          /\ Ran(idx)
          /\ tpc[idx] = "done"
          /\ \E stored \in StoredMean(idx) : \E added \in AddedMean(idx) :
                \E sh \in AddedSH(idx) :
                    /\ stored # V3Zero
                    /\ added # V3Zero
                    /\ sh # V3Zero
                    /\ ~MeanIs(idx, stored)

\* ------------------------------------------- the two kernels unordered
\* BACKWARD::render and computeCov2DCUDA launched without an order between
\* them (two streams): the threads of computeCov2DCUDA may run while warps of
\* the render kernel are still running; preprocessCUDA runs last.  Within a
\* kernel the warps and threads are taken in index order, one of the orders
\* the scheduler may choose; the order between the kernels is left open.
FreeCalls == {call \in PreprocessCalls : ~call.singular /\ ~call.has_shs /\ ~call.has_scales}
InitFree == Init /\ junk = I(13) /\ conic_opacity[1].w = One
LaunchEarly ==
    /\ phase = "render"
    /\ pin' \in FreeCalls
    /\ phase' = "preprocess"
    /\ UNCHANGED <<renderIn, warp, renderOut, tpc, cov, preprocessOut>>
WarpTurn(b) == \A c \in Buckets : c < b => warp[c].pc = "done"
ThreadTurn(idx) == \A j \in Threads : j < idx => tpc[j] # tpc[idx]
NextFree ==
    \/ \E b \in Buckets : WarpTurn(b) /\ (Setup(b) \/ LoopStep(b) \/ Flush(b))
    \/ LaunchEarly
    \/ \E idx \in Threads : ThreadTurn(idx) /\ (Cov2D(idx) \/ Preprocess(idx))
SpecFree == InitFree /\ [][NextFree]_vars

\* what computeCov2DCUDA and preprocessCUDA leave for primitive idx when the
\* render kernel has finished before them
RenderFirst(idx) ==
    \E forward \in {Cov2DForward(idx, pin.singular)} :
    \E rendered \in RenderOpacity(idx) :
    \E regular \in {Regularize(forward, pin.antialiasing, rendered, opacities(idx))} :
    \E aaterm \in {AATerm(regular, pin.antialiasing)} :
    \E dL_dc \in {CovEntryGrad(regular, aaterm,
                                [x |-> dL_dconic2D[4 * idx], y |-> dL_dconic2D[4 * idx + 1],
                                 z |-> dL_dconic2D[4 * idx + 3]])} :
    \E dL_dcov \in {Cov3DGrad(forward.T, dL_dc)} :
    \E stored \in {Cov2DMeanGrad(forward, dL_dc, dL_dinvdepths[idx])} :
    \E added \in AddedMean(idx) :
        /\ dL_dopacity[idx] = regular.dL_dopacity
        /\ \A k \in 0 .. 5 : dL_dcov3D[6 * idx + k] = dL_dcov[k]
        /\ MeanIs(idx, VAdd(stored, added))
AllDone == \A t \in Threads : tpc[t] = "done"
AfterRender == \A idx \in Gaussians : radii(idx) > 0 => cov[idx].after_render

\* C6 as stated: when all kernels have finished, the gradient buffers hold
\* what they hold when the render kernel runs first, however the steps of
\* the render kernel and of computeCov2DCUDA were interleaved.
C6_OrderIndependent ==
    AllDone => \A idx \in Gaussians : radii(idx) > 0 => RenderFirst(idx)
\* C6 amended: computeCov2DCUDA reads gradients that the render kernel
\* accumulates; the buffers hold the render-first result when every thread of
\* computeCov2DCUDA with a non-culled primitive ran after the render kernel
\* had finished.
C6_RenderFirstResult ==
    (AllDone /\ AfterRender) => \A idx \in Gaussians : radii(idx) > 0 => RenderFirst(idx)
\* the kernels have finished in that order and left non-zero gradients
C6_Witness ==
    /\ AllDone
    /\ AfterRender
    /\ \E idx \in Gaussians :
          /\ Ran(idx)
          /\ dL_dcov3D[6 * idx] # Initially(6 * P, 6 * idx)
          /\ dL_dconic2D[4 * idx] # Initially(4 * P, 4 * idx)

\* the determinant of the regularized 2D covariance of a primitive
Determinant(idx) ==
    Sub(Mul(cov[idx].c_xx, cov[idx].c_yy), Mul(cov[idx].c_xy, cov[idx].c_xy))

\* C7: when the regularized 2D covariance of a non-culled primitive is
\* singular, computeCov2DCUDA writes zero to the six entries of its
\* 3D-covariance gradient.
C7_SingularGivesZero ==
    \A idx \in Gaussians :
        (Ran(idx) /\ Determinant(idx) = Zero) =>
            \A k \in 0 .. 5 : dL_dcov3D[6 * idx + k] = Zero

\* the entries of primitive g in the buffers that BACKWARD::preprocess writes
EntriesOf(g) ==
    <<[c \in 0 .. 2 |-> dL_dmeans[3 * g + c]],
      [k \in 0 .. 5 |-> dL_dcov3D[6 * g + k]],
      dL_dopacity[g],
      [c \in 0 .. 2 |-> dL_dscale[3 * g + c]],
      [k \in 0 .. 3 |-> dL_drot[4 * g + k]],
      [c \in 0 .. 2 |-> dL_ddc[3 * g + c]],
      [k \in 0 .. (3 * MaxCoeffs - 1) |-> dL_dsh[3 * g * MaxCoeffs + k]]>>
EntriesOfPrimed(g) ==
    <<[c \in 0 .. 2 |-> dL_dmeans'[3 * g + c]],
      [k \in 0 .. 5 |-> dL_dcov3D'[6 * g + k]],
      dL_dopacity'[g],
      [c \in 0 .. 2 |-> dL_dscale'[3 * g + c]],
      [k \in 0 .. 3 |-> dL_drot'[4 * g + k]],
      [c \in 0 .. 2 |-> dL_ddc'[3 * g + c]],
      [k \in 0 .. (3 * MaxCoeffs - 1) |-> dL_dsh'[3 * g * MaxCoeffs + k]]>>

\* C9: for a primitive whose radius is not positive, no step of
\* BACKWARD::preprocess changes its entries in the mean, 3D-covariance,
\* opacity, scale, rotation, direct-colour and SH gradient buffers, and the
\* steps of its own threads change no entry of any of these buffers.
C9_CulledIsNoOp ==
    [][\A g \in Gaussians :
          (phase = "preprocess" /\ radii(g) <= 0) =>
              /\ EntriesOfPrimed(g) = EntriesOf(g)
              /\ tpc'[g] # tpc[g] =>
                    \A h \in Gaussians : EntriesOfPrimed(h) = EntriesOf(h)]_vars
\* both threads of a culled primitive have returned in a call with every
\* optional output, while another primitive's entries have been written
C9_Witness ==
    /\ phase = "preprocess"
    /\ pin.has_shs
    /\ pin.has_scales
    /\ pin.antialiasing
    /\ \E g \in Gaussians :
          /\ radii(g) <= 0
          /\ tpc[g] = "done"
          /\ \E h \in Gaussians :
                /\ tpc[h] = "done"
                /\ dL_dscale[3 * h] # Initially(3 * P, 3 * h)
                /\ dL_dsh[3 * h * MaxCoeffs] # Initially(3 * P * MaxCoeffs, 3 * h * MaxCoeffs)

\* the factor by which anti-aliasing scales the opacity gradient (lines 217-219)
Scaling(f) ==
    LET det == Sub(Mul(f.c_xx, f.c_yy), Mul(f.c_xy, f.c_xy))
        det_h == Sub(Mul(Add(f.c_xx, Q(3, 10)), Add(f.c_yy, Q(3, 10))), Mul(f.c_xy, f.c_xy))
    IN  SqrtR(MaxR(Q(1, 40000), Div(det, det_h)))
NoTerm == [xx |-> Zero, yy |-> Zero, xy |-> Zero]

\* C10: without anti-aliasing, BACKWARD::preprocess leaves every opacity
\* gradient as the render kernel left it, the regularized 2D covariance is the
\* projected one with 3/10 added to both diagonal entries and the off-diagonal
\* entry as it is, and the covariance-entry gradients are those of the conic
\* alone; with anti-aliasing, the opacity gradient of a non-culled primitive
\* whose thread has run is the render kernel's value times the scaling, once.
C10_AntialiasingFlag ==
    phase = "preprocess" =>
        \A idx \in Gaussians : \E rendered \in RenderOpacity(idx) :
            /\ ~Ran(idx) => dL_dopacity[idx] = rendered
            /\ Ran(idx) =>
                  \E f \in {Cov2DForward(idx, pin.singular)} :
                      /\ cov[idx].c_xx = Add(f.c_xx, Q(3, 10))
                      /\ cov[idx].c_yy = Add(f.c_yy, Q(3, 10))
                      /\ cov[idx].c_xy = f.c_xy
                      /\ ~pin.antialiasing =>
                            /\ dL_dopacity[idx] = rendered
                            /\ cov[idx].aa = NoTerm
                            /\ cov[idx].dL_dc =
                                 CovEntryGrad(cov[idx], NoTerm,
                                              [x |-> dL_dconic2D[4 * idx],
                                               y |-> dL_dconic2D[4 * idx + 1],
                                               z |-> dL_dconic2D[4 * idx + 3]])
                      /\ pin.antialiasing =>
                            dL_dopacity[idx] = Mul(rendered, Scaling(f))
\* both cases: a call without anti-aliasing has left a non-zero opacity
\* gradient alone where the scaling is not one
C10_Witness ==
    /\ phase = "preprocess"
    /\ ~pin.antialiasing
    /\ \E idx \in Gaussians :
          /\ Ran(idx)
          /\ tpc[idx] = "done"
          /\ dL_dopacity[idx] # Zero
          /\ Scaling(Cov2DForward(idx, pin.singular)) # One
\* a call with anti-aliasing has rescaled a non-zero opacity gradient
C10_WitnessScaled ==
    /\ phase = "preprocess"
    /\ pin.antialiasing
    /\ \E idx \in Gaussians :
          /\ Ran(idx)
          /\ tpc[idx] = "done"
          /\ dL_dopacity[idx] # Zero
          /\ \E rendered \in RenderOpacity(idx) : dL_dopacity[idx] # rendered

\* ------------------------------------------- the scan across the lanes
\* position in the tile of the primitive of lane rank of bucket b
LanePosition(b, rank) == bucket_idx_in_tile(b) * WARP + rank
\* the sample of lane rank at pixel idx of the tile is not skipped: it lies
\* below the pixel's contributor count, its exponent is not positive and its
\* alpha is at least 1/255
LaneContributes(b, rank, idx) ==
    RefContributes(bucket_to_tile(b), idx, LanePosition(b, rank))
LaneAlpha(b, rank, idx) ==
    FwdAlpha(conic_opacity, TileGaussian(bucket_to_tile(b), LanePosition(b, rank)),
             pix_of(bucket_to_tile(b), idx).x, pix_of(bucket_to_tile(b), idx).y)
\* the bucket's checkpoint for the pixel, the pixel's final colour and inverse
\* depth subtracted
ScanStart(b, idx) ==
    [T |-> fwd.sampled_T[b * BLOCK_SIZE + idx],
     ar |-> [ch \in Chans |->
               Sub(fwd.sampled_ar[b * BLOCK_SIZE * NUM_CHANNELS + ch * BLOCK_SIZE + idx],
                   fwd.pixel_colors[ch * H * W + pix_id_of(bucket_to_tile(b), idx)])],
     ard |-> Sub(fwd.sampled_ard[b * BLOCK_SIZE + idx],
                 fwd.pixel_invDepths[pix_id_of(bucket_to_tile(b), idx)])]
\* the state st with the contribution of primitive g at alpha
ScanBlend(st, g, alpha) ==
    [T |-> Mul(st.T, Sub(One, alpha)),
     ar |-> [ch \in Chans |->
               Add(st.ar[ch], Mul(Mul(alpha, st.T), colors(g * NUM_CHANNELS + ch)))],
     ard |-> Add(st.ard, Mul(Mul(alpha, st.T), Div(One, depths(g))))]
\* the state after the lanes 0 .. rank of bucket b, each contributing or
\* skipped, as a one-element set
RECURSIVE ScanAfter(_, _, _)
ScanAfter(b, idx, rank) ==
    IF rank < 0 THEN {ScanStart(b, idx)}
    ELSE {IF LaneContributes(b, rank, idx)
          THEN ScanBlend(st, TileGaussian(bucket_to_tile(b), LanePosition(b, rank)),
                         LaneAlpha(b, rank, idx))
          ELSE st : st \in ScanAfter(b, idx, rank - 1)}
\* lane rank of bucket b has just handled the pixel warp[b].lane[rank].idx
Handled(b, rank) == warp[b].pc \in {"loop", "flush"} /\ warp[b].lane[rank].work

\* C11: when a lane has handled a pixel of the image, its transmittance,
\* accumulated colour and accumulated inverse depth are those of the bucket's
\* own checkpoint for the pixel (minus the pixel's final colour and depth),
\* advanced by exactly the lanes of the bucket up to it that contributed to
\* the pixel; so the state the lane used is that of the lanes before it.
C11_StateFromCheckpoint ==
    \A b \in Buckets, rank \in Lanes :
        Handled(b, rank) =>
            \E st \in ScanAfter(b, warp[b].lane[rank].idx, rank) :
                /\ warp[b].lane[rank].T = st.T
                /\ warp[b].lane[rank].ar = st.ar
                /\ warp[b].lane[rank].ard = st.ard
\* a lane beyond the first has blended a pixel that the lane before it had
\* blended too, in a bucket that is not the first of its tile
C11_Witness ==
    \E b \in Buckets, rank \in Lanes :
        /\ rank > 0
        /\ Handled(b, rank)
        /\ warp[b].lane[rank].hit
        /\ LaneContributes(b, rank - 1, warp[b].lane[rank].idx)
        /\ warp[b].lane[rank].T # fwd.sampled_T[b * BLOCK_SIZE + warp[b].lane[rank].idx]
        /\ \E c \in Buckets : bucket_idx_in_tile(c) > 0 /\ \E r \in Lanes : Handled(c, r) /\ warp[c].lane[r].hit

\* --------------------------------------------------- the pipeline schedule
\* the primitive of the tile's list that lane rank of bucket b stands for
OwnPrimitive(b, rank) == TileGaussian(bucket_to_tile(b), LanePosition(b, rank))
OwnsValid(b, rank) == LanePosition(b, rank) < num_splats_in_tile(b)
LaneInputs(l) ==
    <<l.valid_splat, l.gaussian_idx, l.splat_idx_in_tile, l.xy, l.con_o, l.c, l.invd>>

\* C12: at outer step i lane k takes pixel index i - k, which is the pixel lane
\* k - 1 took one step earlier; the loop runs for exactly BLOCK_SIZE + WARP - 1
\* steps, so that every lane meets every pixel index 0 .. BLOCK_SIZE - 1 at
\* exactly one step (step pixel + lane); a lane works on the pixel exactly
\* when it owns a valid primitive and the pixel is one of the tile's pixels
\* inside the image; and every lane keeps its primitive throughout.
C12_Schedule ==
    [][\A b \in Buckets :
          /\ (warp[b].pc = "start" /\ warp'[b].pc = "loop") => warp'[b].i = 0
          /\ (warp[b].pc = "loop" /\ warp'[b] # warp[b]) =>
                /\ warp[b].i < BLOCK_SIZE + WARP - 1
                /\ warp'[b].i = warp[b].i + 1
                /\ warp'[b].pc = IF warp[b].i + 1 = BLOCK_SIZE + WARP - 1 THEN "flush" ELSE "loop"
                /\ \A rank \in Lanes :
                      /\ warp'[b].lane[rank].idx = warp[b].i - rank
                      /\ (rank > 0 /\ warp[b].i > 0) =>
                            warp'[b].lane[rank].idx = warp[b].lane[rank - 1].idx
                      /\ warp'[b].lane[rank].work =
                            (/\ OwnsValid(b, rank)
                             /\ warp[b].i - rank \in TileIdx
                             /\ valid_pixel(bucket_to_tile(b), warp[b].i - rank))
                      /\ LaneInputs(warp'[b].lane[rank]) = LaneInputs(warp[b].lane[rank])
                      /\ OwnsValid(b, rank) =>
                            warp[b].lane[rank].gaussian_idx = OwnPrimitive(b, rank)
                /\ \A rank \in Lanes, pixel \in TileIdx :
                      pixel + rank < BLOCK_SIZE + WARP - 1]_vars
\* a bucket has left the loop after the last lane worked on the last pixel
\* index, while its first lane stands beyond the tile
C12_Witness ==
    \E b \in Buckets :
        /\ warp[b].pc = "flush"
        /\ warp[b].i = BLOCK_SIZE + WARP - 1
        /\ warp[b].lane[WARP - 1].idx = BLOCK_SIZE - 1
        /\ warp[b].lane[WARP - 1].work
        /\ warp[b].lane[0].idx = BLOCK_SIZE + WARP - 2
        /\ ~warp[b].lane[0].work

\* ---------------------------------------------------------- the flush
RenderBuffer(name) ==
    CASE name = "dL_dmean2D" -> dL_dmean2D
      [] name = "dL_dconic2D" -> dL_dconic2D
      [] name = "dL_dopacity" -> dL_dopacity
      [] name = "dL_dcolors" -> dL_dcolors
      [] name = "dL_dinvdepths" -> dL_dinvdepths
RenderBufferNext(name) ==
    CASE name = "dL_dmean2D" -> dL_dmean2D'
      [] name = "dL_dconic2D" -> dL_dconic2D'
      [] name = "dL_dopacity" -> dL_dopacity'
      [] name = "dL_dcolors" -> dL_dcolors'
      [] name = "dL_dinvdepths" -> dL_dinvdepths'
RenderBuffers == {"dL_dmean2D", "dL_dconic2D", "dL_dopacity", "dL_dcolors", "dL_dinvdepths"}
\* the lanes of bucket b whose instruction k goes to entry e
AddersTo(b, k, e) ==
    {rank \in Lanes :
        OwnsValid(b, rank) /\ FlushKey(k, [gaussian_idx |-> OwnPrimitive(b, rank)]) = e}

\* C13: a step of a bucket before its flush writes no gradient buffer; every
\* flush instruction is issued once by every lane that owns a valid primitive
\* and by no other lane, changes only the entries of those lanes' own
\* primitives in the one buffer of that component, by that lane's value; and
\* a bucket that is done has issued one instruction per component from each
\* valid lane and none from the others.
C13_FlushOnceAfterLoop ==
    [][\A b \in Buckets :
          /\ (warp[b].pc \in {"start", "loop"} /\ warp'[b] # warp[b]) =>
                /\ renderOut' = renderOut
                /\ \A rank \in Lanes : warp'[b].adds[rank] = 0
          /\ (warp[b].pc = "start" /\ warp'[b].pc = "done") =>
                \A rank \in Lanes : warp'[b].adds[rank] = 0
          /\ (warp[b].pc = "flush" /\ warp'[b] # warp[b]) =>
                /\ warp'[b].k = warp[b].k + 1
                /\ \A rank \in Lanes :
                      warp'[b].adds[rank] =
                          warp[b].adds[rank] + IF OwnsValid(b, rank) THEN 1 ELSE 0
                /\ \A name \in RenderBuffers \ {FlushBuffer(warp[b].k)} :
                      RenderBufferNext(name) = RenderBuffer(name)
                /\ \A e \in DOMAIN RenderBuffer(FlushBuffer(warp[b].k)) :
                      /\ Cardinality(AddersTo(b, warp[b].k, e)) <= 1
                      /\ AddersTo(b, warp[b].k, e) = {} =>
                            RenderBufferNext(FlushBuffer(warp[b].k))[e] =
                                RenderBuffer(FlushBuffer(warp[b].k))[e]
                      /\ \A rank \in AddersTo(b, warp[b].k, e) :
                            RenderBufferNext(FlushBuffer(warp[b].k))[e] =
                                Add(RenderBuffer(FlushBuffer(warp[b].k))[e],
                                    FlushVal(warp[b].k, warp[b].lane[rank]))
                /\ warp'[b].pc = "done" =>
                      \A rank \in Lanes :
                          warp'[b].adds[rank] =
                              IF OwnsValid(b, rank) THEN NUM_CHANNELS + 9 ELSE 0]_vars
\* a bucket whose list ends before its last lane has finished its flush, a
\* valid lane of it having added a non-zero value
C13_Witness ==
    \E b \in Buckets :
        /\ warp[b].pc = "done"
        /\ warp[b].k = NUM_CHANNELS + 9
        /\ \E rank \in Lanes : ~OwnsValid(b, rank) /\ warp[b].adds[rank] = 0
        /\ \E rank \in Lanes :
              /\ OwnsValid(b, rank)
              /\ warp[b].adds[rank] = NUM_CHANNELS + 9
              /\ warp[b].lane[rank].Register_dL_dopacity # Zero

\* -------------------------------------------------------- skipped samples
\* what lane rank of bucket b receives for pixel index idx: the checkpoint in
\* lane 0, the state of the lane below otherwise
Received(b, rank, idx) ==
    IF rank = 0 THEN ScanStart(b, idx)
    ELSE [T |-> warp[b].lane[rank - 1].T, ar |-> warp[b].lane[rank - 1].ar,
          ard |-> warp[b].lane[rank - 1].ard]
\* the sample of lane rank at the pixel of outer step i is not seen: the
\* exponent is positive or alpha is below 1/255
Unseen(b, rank, i) ==
    ~FwdVisible(conic_opacity, OwnPrimitive(b, rank),
                pix_of(bucket_to_tile(b), i - rank).x, pix_of(bucket_to_tile(b), i - rank).y)

\* C14: when a lane handles a pixel at which its sample has a positive
\* exponent or an alpha below 1/255, the step changes no accumulator of the
\* lane, and the lane then holds the transmittance, accumulated colour and
\* accumulated depth exactly as it received them.
C14_SkippedSamplePassesState ==
    [][\A b \in Buckets, rank \in Lanes :
          (/\ warp[b].pc = "loop"
           /\ warp'[b].i = warp[b].i + 1
           /\ Handles(b, rank, warp[b].i)
           /\ Unseen(b, rank, warp[b].i))
          => /\ LaneRegisters(warp'[b].lane[rank]) = LaneRegisters(warp[b].lane[rank])
             /\ warp'[b].lane[rank].T = Received(b, rank, warp[b].i - rank).T
             /\ warp'[b].lane[rank].ar = Received(b, rank, warp[b].i - rank).ar
             /\ warp'[b].lane[rank].ard = Received(b, rank, warp[b].i - rank).ard]_vars
\* a lane holding a non-zero sum has just skipped a sample whose alpha is
\* positive but below 1/255, at a pixel whose contributor count lies beyond
\* it, and the next lane has then blended the state passed through
C14_Witness ==
    \E b \in Buckets :
        /\ warp[b].pc \in {"loop", "flush"}
        /\ warp[b].i > 1
        /\ Handles(b, 0, warp[b].i - 2)
        /\ Unseen(b, 0, warp[b].i - 2)
        /\ ~AtOrBeyondCount(b, 0, warp[b].i - 2)
        /\ FwdPower(conic_opacity, OwnPrimitive(b, 0),
                    pix_of(bucket_to_tile(b), warp[b].i - 2).x,
                    pix_of(bucket_to_tile(b), warp[b].i - 2).y)[1] <= 0
        /\ LaneAlpha(b, 0, warp[b].i - 2) # Zero
        /\ warp[b].lane[0].Register_dL_dopacity # Zero
        /\ warp[b].lane[1].idx = warp[b].i - 2
        /\ warp[b].lane[1].hit
        /\ warp[b].lane[1].T # fwd.sampled_T[b * BLOCK_SIZE + warp[b].i - 2]

\* ------------------------------------------------------ clamped channels
\* a thread of preprocessCUDA runs computeColorFromSH for primitive idx
ColourStep(idx) ==
    /\ phase = "preprocess"
    /\ pin.has_shs
    /\ radii(idx) > 0
    /\ tpc[idx] = "prep"
    /\ tpc'[idx] = "done"
ViewDir(idx) == Normalized(VSub(means(idx), campos))
Coefficients(idx) ==
    [j \in 0 .. (MaxCoeffs - 1) |->
        V3(shs(3 * (idx * MaxCoeffs + j)), shs(3 * (idx * MaxCoeffs + j) + 1),
           shs(3 * (idx * MaxCoeffs + j) + 2))]
\* the part of a direction derivative u that the channels of primitive idx
\* without a clamp flag carry: a flagged channel has no term
UnclampedDot(idx, u) ==
    Add3(IF clamped(3 * idx) THEN Zero ELSE Mul(u.x, dL_dcolors[3 * idx]),
         IF clamped(3 * idx + 1) THEN Zero ELSE Mul(u.y, dL_dcolors[3 * idx + 1]),
         IF clamped(3 * idx + 2) THEN Zero ELSE Mul(u.z, dL_dcolors[3 * idx + 2]))
UnclampedDir(idx, g) ==
    V3(UnclampedDot(idx, g.dRGBdx), UnclampedDot(idx, g.dRGBdy), UnclampedDot(idx, g.dRGBdz))
\* what the call adds to the mean gradient when no flagged channel takes part
UnclampedMean(idx) ==
    dnormvdv(VSub(means(idx), campos),
             UnclampedDir(idx, SHDirGrad(pin.D, Coefficients(idx), ViewDir(idx).x,
                                         ViewDir(idx).y, ViewDir(idx).z)))

\* C15: after computeColorFromSH has run for a primitive, every channel whose
\* clamp flag is set has a zero direct-colour gradient and a zero gradient in
\* every coefficient written for the active degree; every other channel has
\* its own colour gradient times the basis factor, whatever the flags of the
\* other channels; and what the call adds to the mean gradient is the
\* direction gradient of the unflagged channels alone.
C15_ClampedChannelsZero ==
    [][\A idx \in Gaussians :
          ColourStep(idx) =>
              /\ \A c \in 0 .. 2 :
                    /\ dL_ddc'[3 * idx + c] =
                          IF clamped(3 * idx + c) THEN Zero
                          ELSE Mul(SH_C0, dL_dcolors[3 * idx + c])
                    /\ \A j \in 0 .. (CoeffsWritten(pin.D) - 1) :
                          dL_dsh'[3 * (idx * MaxCoeffs + j) + c] =
                              IF clamped(3 * idx + c) THEN Zero
                              ELSE Mul(dRGBdsh(j, ViewDir(idx).x, ViewDir(idx).y, ViewDir(idx).z),
                                       dL_dcolors[3 * idx + c])
                    /\ dL_dmeans'[3 * idx + c] =
                          Add(Add(dL_dmeans[3 * idx + c],
                                  VComp(ProjMeanGrad(idx, dL_dmean2D), c)),
                              VComp(UnclampedMean(idx), c))]_vars
\* the call has run with coefficients of a degree above zero for a primitive
\* with a flagged channel whose colour gradient is not zero and whose basis
\* factors are not all zero, next to an unflagged channel with a non-zero
\* result, and the buffers held other values before
C15_Witness ==
    /\ phase = "preprocess"
    /\ pin.has_shs
    /\ pin.D > 0
    /\ dirty
    /\ \E idx \in Gaussians, c \in 0 .. 2, o \in 0 .. 2 :
          /\ radii(idx) > 0
          /\ tpc[idx] = "done"
          /\ clamped(3 * idx + c)
          /\ dL_dcolors[3 * idx + c] # Zero
          /\ dL_ddc[3 * idx + c] = Zero
          /\ \E j \in 0 .. (CoeffsWritten(pin.D) - 1) :
                /\ dRGBdsh(j, ViewDir(idx).x, ViewDir(idx).y, ViewDir(idx).z) # Zero
                /\ dL_dsh[3 * (idx * MaxCoeffs + j) + c] = Zero
                /\ dL_dsh[3 * (idx * MaxCoeffs + j) + o] # Zero
          /\ ~clamped(3 * idx + o)
          /\ dL_ddc[3 * idx + o] # Zero
          /\ UnclampedMean(idx) # V3Zero

\* --------------------------------------------- magnitudes of the 2D mean
\* the magnitude channels of primitive g bound the signed ones
Dominates(buf, g) ==
    /\ Ge(buf[4 * g + 2], AbsR(buf[4 * g]))
    /\ Ge(buf[4 * g + 3], AbsR(buf[4 * g + 1]))
\* bucket b has issued none or all of its four additions to dL_dmean2D
MeanFlushWhole(w) == w.pc = "flush" => (w.k = 0 \/ w.k >= 4)

\* C16: when the caller zero-filled dL_dmean2D, then whenever every bucket
\* has issued none or all of its additions to it, z is at least |x| and w at
\* least |y| for every primitive; and no step ever decreases z or w.
C16_MagnitudeDominates ==
    [][/\ (~dirty /\ \A b \in Buckets : MeanFlushWhole(warp'[b])) =>
              \A g \in Gaussians : Dominates(dL_dmean2D', g)
       /\ \A g \in Gaussians :
              /\ Ge(dL_dmean2D'[4 * g + 2], dL_dmean2D[4 * g + 2])
              /\ Ge(dL_dmean2D'[4 * g + 3], dL_dmean2D[4 * g + 3])]_vars
\* two buckets have flushed sums of opposite sign for one primitive: its
\* signed entry is negative and its magnitude exceeds the net sum
C16_Witness ==
    /\ ~dirty
    /\ \A b \in Buckets : warp[b].pc = "done"
    /\ \E g \in Gaussians :
          \/ Lt(dL_dmean2D[4 * g], Zero) /\ Gt(dL_dmean2D[4 * g + 2], AbsR(dL_dmean2D[4 * g]))
          \/ /\ Lt(dL_dmean2D[4 * g + 1], Zero)
             /\ Gt(dL_dmean2D[4 * g + 3], AbsR(dL_dmean2D[4 * g + 1]))
====
